---- MODULE Spec2Model ----
(***************************************************************************)
(* CHIP-8 interpreter drafts of the repository, as one state machine.      *)
(*                                                                         *)
(* The repository holds several drafts of the same class Chip8.  A run of  *)
(* the model is one run of one draft: `draft` says which class the object  *)
(* `chip8` is an instance of, and only that draft's callbacks fire.        *)
(*                                                                         *)
(*   "Take4"    class Chip8, lines 47-276   (tick)                         *)
(*   "Working"  class Chip8, lines 1612-2054 (_cpu_tick / cycle,           *)
(*                                            _timer_tick)                 *)
(*                                                                         *)
(* Representation.  A Python list of 0/1 pixels is held as the set of the  *)
(* indices whose cell is 1, and the 4096-cell memory list as the finite    *)
(* map of its nonzero cells; every access goes through ListGet / ListSet / *)
(* InBounds, which keep Python's index rules (IndexError outside           *)
(* -len..len-1).  Rendering, audio playback and the performance counters   *)
(* are not part of the state.                                              *)
(***************************************************************************)
EXTENDS Integers, Sequences, FiniteSets, TLC

VARIABLES
    draft,      \* which class the running object is an instance of
    chip8,      \* the Chip8 object: a record of its fields
    uncaught,   \* exception that left a callback and ended the process, "" if none
    last,       \* the most recent step (opcode fetched, its address, exception
                \* raised) and the kind of the most recent callback
    user,       \* the keypad keys the user touches during this run
    romfile     \* the bytes of the ROM file the emulator was started on

vars == <<draft, chip8, uncaught, last, user, romfile>>

----------------------------------------------------------------------------
(* Bounds of the exploration *)

MaxHeld == 2        \* keys the user holds down at the same time
MaxStack == 17      \* Take4's list `stack` is unbounded: depth explored
MaxRand == 2         \* random bytes tried for Cxkk by Take4 and Working: 0, 85, .. 85*MaxRand
MaxPlayers == 2     \* beep players whose end of stream is still to come

(* Sizes fixed by the program *)

MemLen == 4096      \* len(self.memory)
NumRegs == 16       \* len(self.V), len(self.gpio)
NumKeys == 16       \* len(self.keys), len(self.key_inputs)
width == 64
height == 32

----------------------------------------------------------------------------
(* Python integer operators, on naturals below 2^20 (no value of the       *)
(* program has more than 17 bits)                                          *)

Pow2(k) ==
    << 1, 2, 4, 8, 16, 32, 64, 128, 256, 512, 1024, 2048, 4096, 8192, 16384,
       32768, 65536, 131072, 262144, 524288, 1048576 >>[k + 1]

Shl(a, k) == a * Pow2(k)
Shr(a, k) == a \div Pow2(k)

\* bit i of a
Bit(a, i) == (a \div Pow2(i)) % 2

\* bits k..k+3 of a & b, a | b, a ^ b
And4(a, b, k) ==
      (IF Bit(a, k) = 1 /\ Bit(b, k) = 1 THEN Pow2(k) ELSE 0)
    + (IF Bit(a, k + 1) = 1 /\ Bit(b, k + 1) = 1 THEN Pow2(k + 1) ELSE 0)
    + (IF Bit(a, k + 2) = 1 /\ Bit(b, k + 2) = 1 THEN Pow2(k + 2) ELSE 0)
    + (IF Bit(a, k + 3) = 1 /\ Bit(b, k + 3) = 1 THEN Pow2(k + 3) ELSE 0)

Or4(a, b, k) ==
      (IF Bit(a, k) = 1 \/ Bit(b, k) = 1 THEN Pow2(k) ELSE 0)
    + (IF Bit(a, k + 1) = 1 \/ Bit(b, k + 1) = 1 THEN Pow2(k + 1) ELSE 0)
    + (IF Bit(a, k + 2) = 1 \/ Bit(b, k + 2) = 1 THEN Pow2(k + 2) ELSE 0)
    + (IF Bit(a, k + 3) = 1 \/ Bit(b, k + 3) = 1 THEN Pow2(k + 3) ELSE 0)

Xor4(a, b, k) ==
      (IF Bit(a, k) # Bit(b, k) THEN Pow2(k) ELSE 0)
    + (IF Bit(a, k + 1) # Bit(b, k + 1) THEN Pow2(k + 1) ELSE 0)
    + (IF Bit(a, k + 2) # Bit(b, k + 2) THEN Pow2(k + 2) ELSE 0)
    + (IF Bit(a, k + 3) # Bit(b, k + 3) THEN Pow2(k + 3) ELSE 0)

BitAnd(a, b) ==
    And4(a, b, 0) + And4(a, b, 4) + And4(a, b, 8) + And4(a, b, 12) + And4(a, b, 16)

BitOr(a, b) ==
    Or4(a, b, 0) + Or4(a, b, 4) + Or4(a, b, 8) + Or4(a, b, 12) + Or4(a, b, 16)

BitXor(a, b) ==
    Xor4(a, b, 0) + Xor4(a, b, 4) + Xor4(a, b, 8) + Xor4(a, b, 12) + Xor4(a, b, 16)

\* (e) & mask for a mask of the form 2^k - 1 and any integer e, negative included
Mask(e, m) == e % (m + 1)

----------------------------------------------------------------------------
(* Python lists *)

\* list[i] raises IndexError unless -len <= i < len
InBounds(i, len) == i >= 0 - len /\ i < len

\* the cell a valid index names (negative indices count from the end)
Cell(i, len) == IF i < 0 THEN i + len ELSE i

\* a list of small integers held as the map of its nonzero cells
ListGet(m, i, len) == IF Cell(i, len) \in DOMAIN m THEN m[Cell(i, len)] ELSE 0

ListSet(m, i, len, v) ==
    LET c == Cell(i, len) IN
    IF v = 0 THEN [b \in DOMAIN m \ {c} |-> m[b]]
    ELSE [b \in DOMAIN m \cup {c} |-> IF b = c THEN v ELSE m[b]]

\* a list of 0/1 cells held as the set of the indices of its 1 cells
BitGet(v, i) == IF i \in v THEN 1 ELSE 0
BitToggle(v, i) == IF i \in v THEN v \ {i} ELSE v \cup {i}

\* what a callback hands back: the object, the exception it raised ("" if
\* none) and whether it left through an early `return`
Done(s) == [st |-> s, raised |-> "", returned |-> FALSE]
Return(s) == [st |-> s, raised |-> "", returned |-> TRUE]
Raise(s, e) == [st |-> s, raised |-> e, returned |-> FALSE]

----------------------------------------------------------------------------
(* Font table and program load *)

FONTSET ==
    << 240, 144, 144, 144, 240,   32,  96,  32,  32, 112,
       240,  16, 240, 128, 240,  240,  16, 240,  16, 240,
       144, 144, 240,  16,  16,  240, 128, 240,  16, 240,
       240, 128, 240, 144, 240,  240,  16,  32,  64,  64,
       240, 144, 240, 144, 240,  240, 144, 240,  16, 240,
       240, 144, 240, 144, 144,  224, 144, 224, 144, 224,
       240, 128, 128, 128, 240,  224, 144, 144, 144, 224,
       240, 128, 240, 128, 240,  240, 128, 240, 128, 128 >>

\* a program given as 16-bit words, as the bytes of its file (big-endian)
RomBytes(words) ==
    [i \in 1..(2 * Len(words)) |->
        IF i % 2 = 1 THEN words[(i + 1) \div 2] \div 256
        ELSE words[i \div 2] % 256]

\* memory after "Load fontset" and "Load ROM": the font at 0..79, byte i
\* of the ROM at 0x200 + i for the first `fits` bytes, zero elsewhere
LoadedMemory(rom, fits) ==
    LET cell(a) == IF a >= 512 /\ a - 512 < fits THEN rom[a - 512 + 1]
                   ELSE IF a < Len(FONTSET) THEN FONTSET[a + 1]
                   ELSE 0
    IN [a \in {b \in (0..(Len(FONTSET) - 1)) \cup (512..(512 + fits - 1)) : cell(b) # 0}
           |-> cell(a)]

----------------------------------------------------------------------------
(* Take4: class Chip8, lines 47-276 *)

\* an __init__ without the "Load ROM" loop
T4_init_without_rom(rom) ==
    [ memory |-> LoadedMemory(rom, 0),
      vram   |-> {},
      V      |-> [i \in 0..(NumRegs - 1) |-> 0],
      I      |-> 0,
      pc     |-> 512,
      stack  |-> <<>>,
      keys   |-> [i \in 0..(NumKeys - 1) |-> 0],
      delay  |-> 0,
      sound  |-> 0 ]

\* the object __init__ leaves for a ROM that fits; a longer ROM ends
\* __init__ with IndexError at the first byte past the end of memory
T4_init(rom) ==
    LET fits == IF Len(rom) <= MemLen - 512 THEN Len(rom) ELSE MemLen - 512 IN
    [ memory |-> LoadedMemory(rom, fits),
      vram   |-> {},
      V      |-> [i \in 0..(NumRegs - 1) |-> 0],
      I      |-> 0,
      pc     |-> 512,
      stack  |-> <<>>,
      keys   |-> [i \in 0..(NumKeys - 1) |-> 0],
      delay  |-> 0,
      sound  |-> 0 ]

\* opcode = self.memory[self.pc] << 8 | self.memory[self.pc + 1]
T4_fetch(s) ==
    BitOr(Shl(ListGet(s.memory, s.pc, MemLen), 8), ListGet(s.memory, s.pc + 1, MemLen))

\* 00EE: self.pc = self.stack.pop()
T4_RET(s) ==
    IF Len(s.stack) = 0 THEN Raise(s, "IndexError")
    ELSE Done([s EXCEPT !.pc = s.stack[Len(s.stack)],
                        !.stack = SubSeq(s.stack, 1, Len(s.stack) - 1)])

\* a CALL that pushes the address of the CALL itself (the Working draft's
\* convention) while RET still jumps straight to the popped value
T4_CALL_pushes_call_site(s, nnn) ==
    Done([s EXCEPT !.stack = Append(s.stack, s.pc - 2), !.pc = nnn])
\* 2nnn: self.stack.append(self.pc); self.pc = nnn
T4_CALL(s, nnn) ==
    Done([s EXCEPT !.stack = Append(s.stack, s.pc), !.pc = nnn])

\* a skip that is taken whatever the condition
T4_skip_always(s, cond) == Done([s EXCEPT !.pc = s.pc + 2])

\* the skips: if <cond>: self.pc += 2
T4_skip(s, cond) == Done(IF cond THEN [s EXCEPT !.pc = s.pc + 2] ELSE s)

\* a 7xkk that writes the carry of the sum to VF, as 8xy4 does
T4_ADD_byte_with_carry(s, x, kk) ==
    LET s1 == [s EXCEPT !.V[15] = IF s.V[x] + kk > 255 THEN 1 ELSE 0]
    IN Done([s1 EXCEPT !.V[x] = BitAnd(s.V[x] + kk, \hFF)])

\* 7xkk: self.V[x] = (self.V[x] + kk) & 0xFF
T4_ADD_byte(s, x, kk) == Done([s EXCEPT !.V[x] = BitAnd(s.V[x] + kk, \hFF)])

\* 8xy4
T4_ADD(s, x, y) ==
    LET total == s.V[x] + s.V[y]
        s1 == [s EXCEPT !.V[15] = IF total > 255 THEN 1 ELSE 0]
    IN Done([s1 EXCEPT !.V[x] = BitAnd(total, 255)])

\* 8xy5
T4_SUB(s, x, y) ==
    LET s1 == [s EXCEPT !.V[15] = IF s.V[x] > s.V[y] THEN 1 ELSE 0]
    IN Done([s1 EXCEPT !.V[x] = Mask(s1.V[x] - s1.V[y], 255)])

\* 8xy6
T4_SHR(s, x) ==
    LET s1 == [s EXCEPT !.V[15] = BitAnd(s.V[x], 1)]
    IN Done([s1 EXCEPT !.V[x] = Shr(s1.V[x], 1)])

\* 8xy7
T4_SUBN(s, x, y) ==
    LET s1 == [s EXCEPT !.V[15] = IF s.V[y] > s.V[x] THEN 1 ELSE 0]
    IN Done([s1 EXCEPT !.V[x] = Mask(s1.V[y] - s1.V[x], 255)])

\* a shift left that keeps the ninth bit in Vx
T4_SHL_keeps_carry(s, x) ==
    LET s1 == [s EXCEPT !.V[15] = BitAnd(Shr(s.V[x], 7), 1)]
    IN Done([s1 EXCEPT !.V[x] = Shl(s1.V[x], 1)])

\* 8xyE
T4_SHL(s, x) ==
    LET s1 == [s EXCEPT !.V[15] = BitAnd(Shr(s.V[x], 7), 1)]
    IN Done([s1 EXCEPT !.V[x] = BitAnd(Shl(s1.V[x], 1), 255)])

\* an inner loop that sets the pixel instead of toggling it
RECURSIVE T4_DRW_bits_set(_, _, _, _, _, _)
T4_DRW_bits_set(s, sprite, px, py, row, bit) ==
    IF bit >= 8 THEN s
    ELSE IF BitAnd(sprite, Shr(128, bit)) # 0
         THEN LET vx == (px + bit) % 64
                  vy == (py + row) % 32
                  index == vx + vy * 64
                  s1 == IF BitGet(s.vram, index) = 1 THEN [s EXCEPT !.V[15] = 1] ELSE s
              IN T4_DRW_bits_set([s1 EXCEPT !.vram = s1.vram \cup {index}],
                                 sprite, px, py, row, bit + 1)
         ELSE T4_DRW_bits_set(s, sprite, px, py, row, bit + 1)

\* Dxyn, the inner loop: for bit in range(8)
RECURSIVE T4_DRW_bits(_, _, _, _, _, _)
T4_DRW_bits(s, sprite, px, py, row, bit) ==
    IF bit >= 8 THEN s
    ELSE IF BitAnd(sprite, Shr(128, bit)) # 0
         THEN LET vx == (px + bit) % 64
                  vy == (py + row) % 32
                  index == vx + vy * 64
                  s1 == IF BitGet(s.vram, index) = 1 THEN [s EXCEPT !.V[15] = 1] ELSE s
              IN T4_DRW_bits([s1 EXCEPT !.vram = BitToggle(s1.vram, index)],
                             sprite, px, py, row, bit + 1)
         ELSE T4_DRW_bits(s, sprite, px, py, row, bit + 1)

\* Dxyn, the outer loop: for row in range(n)
RECURSIVE T4_DRW_rows(_, _, _, _, _)
T4_DRW_rows(s, px, py, n, row) ==
    IF row >= n THEN Done(s)
    ELSE IF ~InBounds(s.I + row, MemLen) THEN Raise(s, "IndexError")
    ELSE T4_DRW_rows(T4_DRW_bits(s, ListGet(s.memory, s.I + row, MemLen), px, py, row, 0),
                     px, py, n, row + 1)

\* a draw without the `self.V[0xF] = 0` of line 184
T4_DRW_keeps_VF(s, x, y, n) ==
    T4_DRW_rows(s, s.V[x], s.V[y], n, 0)

\* Dxyn
T4_DRW(s, x, y, n) ==
    T4_DRW_rows([s EXCEPT !.V[15] = 0], s.V[x], s.V[y], n, 0)

\* an Ex9E that skips while the key is up
T4_SKP_inverted(s, x) ==
    IF ~InBounds(s.V[x], NumKeys) THEN Raise(s, "IndexError")
    ELSE T4_skip(s, s.keys[Cell(s.V[x], NumKeys)] = 0)

\* Ex9E: if self.keys[self.V[x]]: self.pc += 2
T4_SKP(s, x) ==
    IF ~InBounds(s.V[x], NumKeys) THEN Raise(s, "IndexError")
    ELSE T4_skip(s, s.keys[Cell(s.V[x], NumKeys)] # 0)

\* ExA1: if not self.keys[self.V[x]]: self.pc += 2
T4_SKNP(s, x) ==
    IF ~InBounds(s.V[x], NumKeys) THEN Raise(s, "IndexError")
    ELSE T4_skip(s, s.keys[Cell(s.V[x], NumKeys)] = 0)

\* a key wait without the `self.pc -= 2` of line 217
T4_WAIT_KEY_no_rewind(s, x) ==
    LET pressed == {i \in 0..15 : s.keys[i] # 0} IN
    IF pressed # {}
    THEN Return([s EXCEPT !.V[x] = CHOOSE i \in pressed : \A j \in pressed : i <= j])
    ELSE Done(s)
\* a key wait whose scan starts at key 1
T4_WAIT_KEY_skips_key0(s, x) ==
    LET pressed == {i \in 1..15 : s.keys[i] # 0} IN
    IF pressed # {}
    THEN Return([s EXCEPT !.V[x] = CHOOSE i \in pressed : \A j \in pressed : i <= j])
    ELSE Done([s EXCEPT !.pc = s.pc - 2])
\* a key wait whose scan runs from key 15 down
T4_WAIT_KEY_highest(s, x) ==
    LET pressed == {i \in 0..15 : s.keys[i] # 0} IN
    IF pressed # {}
    THEN Return([s EXCEPT !.V[x] = CHOOSE i \in pressed : \A j \in pressed : i >= j])
    ELSE Done([s EXCEPT !.pc = s.pc - 2])
\* Fx0A: the first pressed key goes to Vx and tick returns at once;
\* with no key pressed the instruction is fetched again
T4_WAIT_KEY(s, x) ==
    LET pressed == {i \in 0..15 : s.keys[i] # 0} IN
    IF pressed # {}
    THEN Return([s EXCEPT !.V[x] = CHOOSE i \in pressed : \A j \in pressed : i <= j])
    ELSE Done([s EXCEPT !.pc = s.pc - 2])

\* an Fx33 that stores the digits units first
T4_BCD_units_first(s, x) ==
    LET v == s.V[x] IN
    IF ~InBounds(s.I, MemLen) THEN Raise(s, "IndexError")
    ELSE LET s1 == [s EXCEPT !.memory = ListSet(s.memory, s.I, MemLen, v % 10)] IN
    IF ~InBounds(s.I + 1, MemLen) THEN Raise(s1, "IndexError")
    ELSE LET s2 == [s1 EXCEPT !.memory = ListSet(s1.memory, s.I + 1, MemLen, (v \div 10) % 10)] IN
    IF ~InBounds(s.I + 2, MemLen) THEN Raise(s2, "IndexError")
    ELSE Done([s2 EXCEPT !.memory = ListSet(s2.memory, s.I + 2, MemLen, v \div 100)])

\* Fx33
T4_BCD(s, x) ==
    LET v == s.V[x] IN
    IF ~InBounds(s.I, MemLen) THEN Raise(s, "IndexError")
    ELSE LET s1 == [s EXCEPT !.memory = ListSet(s.memory, s.I, MemLen, v \div 100)] IN
    IF ~InBounds(s.I + 1, MemLen) THEN Raise(s1, "IndexError")
    ELSE LET s2 == [s1 EXCEPT !.memory = ListSet(s1.memory, s.I + 1, MemLen, (v \div 10) % 10)] IN
    IF ~InBounds(s.I + 2, MemLen) THEN Raise(s2, "IndexError")
    ELSE Done([s2 EXCEPT !.memory = ListSet(s2.memory, s.I + 2, MemLen, v % 10)])

\* an Fx55 whose loop is range(x): Vx itself is not stored
RECURSIVE T4_STORE_without_Vx(_, _, _)
T4_STORE_without_Vx(s, x, i) ==
    IF i >= x THEN Done(s)
    ELSE IF ~InBounds(s.I + i, MemLen) THEN Raise(s, "IndexError")
    ELSE T4_STORE_without_Vx([s EXCEPT !.memory = ListSet(s.memory, s.I + i, MemLen, s.V[i])],
                             x, i + 1)

\* Fx55: for i in range(x + 1): self.memory[self.I + i] = self.V[i]
RECURSIVE T4_STORE(_, _, _)
T4_STORE(s, x, i) ==
    IF i > x THEN Done(s)
    ELSE IF ~InBounds(s.I + i, MemLen) THEN Raise(s, "IndexError")
    ELSE T4_STORE([s EXCEPT !.memory = ListSet(s.memory, s.I + i, MemLen, s.V[i])], x, i + 1)

\* Fx65: for i in range(x + 1): self.V[i] = self.memory[self.I + i]
RECURSIVE T4_LOAD(_, _, _)
T4_LOAD(s, x, i) ==
    IF i > x THEN Done(s)
    ELSE IF ~InBounds(s.I + i, MemLen) THEN Raise(s, "IndexError")
    ELSE T4_LOAD([s EXCEPT !.V[i] = ListGet(s.memory, s.I + i, MemLen)], x, i + 1)

\* the words some `if` / `elif` of tick's chain tests for
T4_has_branch(opcode) ==
    \/ opcode \in {\h00E0, \h00EE}
    \/ BitAnd(opcode, \hF000) \in {\h1000, \h2000, \h3000, \h4000, \h6000, \h7000,
                                   \hA000, \hD000}
    \/ BitAnd(opcode, \hF00F) \in {\h5000, \h8000, \h8001, \h8002, \h8003, \h8004,
                                   \h8005, \h8006, \h8007, \h800E, \h9000}
    \/ BitAnd(opcode, \hF0FF) \in {\hE09E, \hE0A1, \hF007, \hF00A, \hF015, \hF018,
                                   \hF01E, \hF029, \hF033, \hF055, \hF065}

\* a chain whose final else raises
T4_no_branch_fatal(s) == Raise(s, "IndexError")
\* a word no branch matches: the chain ends without an else, nothing runs
T4_no_branch(s) == Done(s)

\* the if / elif chain of tick, entered with pc already advanced
T4_execute(s, opcode) ==
    LET nnn == BitAnd(opcode, \h0FFF)
        n   == BitAnd(opcode, \h000F)
        x   == BitAnd(Shr(opcode, 8), \hF)
        y   == BitAnd(Shr(opcode, 4), \hF)
        kk  == BitAnd(opcode, \hFF)
        hi  == BitAnd(opcode, \hF000)
        hl  == BitAnd(opcode, \hF00F)
        hb  == BitAnd(opcode, \hF0FF)
    IN
    IF opcode = \h00E0 THEN Done([s EXCEPT !.vram = {}])
    ELSE IF opcode = \h00EE THEN T4_RET(s)
    ELSE IF hi = \h1000 THEN Done([s EXCEPT !.pc = nnn])
    ELSE IF hi = \h2000 THEN T4_CALL(s, nnn)
    ELSE IF hi = \h3000 THEN T4_skip(s, s.V[x] = kk)
    ELSE IF hi = \h4000 THEN T4_skip(s, s.V[x] # kk)
    ELSE IF hl = \h5000 THEN T4_skip(s, s.V[x] = s.V[y])
    ELSE IF hi = \h6000 THEN Done([s EXCEPT !.V[x] = kk])
    ELSE IF hi = \h7000 THEN T4_ADD_byte(s, x, kk)
    ELSE IF hl = \h8000 THEN Done([s EXCEPT !.V[x] = s.V[y]])
    ELSE IF hl = \h8001 THEN Done([s EXCEPT !.V[x] = BitOr(s.V[x], s.V[y])])
    ELSE IF hl = \h8002 THEN Done([s EXCEPT !.V[x] = BitAnd(s.V[x], s.V[y])])
    ELSE IF hl = \h8003 THEN Done([s EXCEPT !.V[x] = BitXor(s.V[x], s.V[y])])
    ELSE IF hl = \h8004 THEN T4_ADD(s, x, y)
    ELSE IF hl = \h8005 THEN T4_SUB(s, x, y)
    ELSE IF hl = \h8006 THEN T4_SHR(s, x)
    ELSE IF hl = \h8007 THEN T4_SUBN(s, x, y)
    ELSE IF hl = \h800E THEN T4_SHL(s, x)
    ELSE IF hl = \h9000 THEN T4_skip(s, s.V[x] # s.V[y])
    ELSE IF hi = \hA000 THEN Done([s EXCEPT !.I = nnn])
    ELSE IF hi = \hD000 THEN T4_DRW(s, x, y, n)
    ELSE IF hb = \hE09E THEN T4_SKP(s, x)
    ELSE IF hb = \hE0A1 THEN T4_SKNP(s, x)
    ELSE IF hb = \hF007 THEN Done([s EXCEPT !.V[x] = s.delay])
    ELSE IF hb = \hF00A THEN T4_WAIT_KEY(s, x)
    ELSE IF hb = \hF015 THEN Done([s EXCEPT !.delay = s.V[x]])
    ELSE IF hb = \hF018 THEN Done([s EXCEPT !.sound = s.V[x]])
    ELSE IF hb = \hF01E THEN Done([s EXCEPT !.I = BitAnd(s.I + s.V[x], \hFFF)])
    ELSE IF hb = \hF029 THEN Done([s EXCEPT !.I = s.V[x] * 5])
    ELSE IF hb = \hF033 THEN T4_BCD(s, x)
    ELSE IF hb = \hF055 THEN T4_STORE(s, x, 0)
    ELSE IF hb = \hF065 THEN T4_LOAD(s, x, 0)
    ELSE T4_no_branch(s)

\* the "# Timers" section that ends tick
T4_timers(s) ==
    LET s1 == IF s.delay > 0 THEN [s EXCEPT !.delay = s.delay - 1] ELSE s
    IN IF s1.sound > 0 THEN [s1 EXCEPT !.sound = s1.sound - 1] ELSE s1

\* what tick does once a branch has run: an exception or the early return
\* of Fx0A leaves at once, anything else goes through the timer section
T4_finish(r) ==
    IF r.raised # "" \/ r.returned THEN r ELSE Done(T4_timers(r.st))

\* tick(self, dt); the fetched word is bound once, as the local `opcode` is
T4_tick(s) ==
    IF ~InBounds(s.pc, MemLen) \/ ~InBounds(s.pc + 1, MemLen) THEN Raise(s, "IndexError")
    ELSE CHOOSE r \in { T4_finish(res) :
                          res \in { T4_execute([s EXCEPT !.pc = s.pc + 2], opcode) :
                                      opcode \in {T4_fetch(s)} } } : TRUE

\* on_key_press / on_key_release for a symbol of KEYMAP; k = KEYMAP[symbol]
T4_on_key_press(s, k) == [s EXCEPT !.keys[k] = 1]
T4_on_key_release(s, k) == [s EXCEPT !.keys[k] = 0]

----------------------------------------------------------------------------
(* Working draft: class Chip8, lines 1612-2054 *)

\* memory after Chip8() and load_rom(rom): bytes with 0x200 + i >= 4096
\* are dropped
W_load_rom(rom) ==
    LET fits == IF Len(rom) <= MemLen - 512 THEN Len(rom) ELSE MemLen - 512 IN
    LoadedMemory(rom, fits)

W_init(rom) ==
    [ memory         |-> W_load_rom(rom),
      gpio           |-> [i \in 0..(NumRegs - 1) |-> 0],
      index          |-> 0,
      pc             |-> 512,
      stack          |-> <<>>,
      delay_timer    |-> 0,
      sound_timer    |-> 0,
      display_buffer |-> {},
      key_inputs     |-> [i \in 0..(NumKeys - 1) |-> 0],
      opcode         |-> 0,
      vx             |-> 0,
      vy             |-> 0,
      has_exit       |-> FALSE,
      sound_playing  |-> FALSE ]

\* _play_beep: starts a player and sets the flag
W_play_beep(s) == [s EXCEPT !.sound_playing = TRUE]

W_0E0(s) == Done([s EXCEPT !.display_buffer = {}])

W_00EE(s) ==
    IF Len(s.stack) = 0 THEN Raise(s, "Stack underflow on 00EE")
    ELSE Done([s EXCEPT !.pc = s.stack[Len(s.stack)],
                        !.stack = SubSeq(s.stack, 1, Len(s.stack) - 1)])

\* a 1nnn without the "- 2" that makes up for cycle's default increment
W_1nnn_plain(s) == Done([s EXCEPT !.pc = BitAnd(s.opcode, \h0FFF)])

W_1nnn(s) == Done([s EXCEPT !.pc = BitAnd(s.opcode, \h0FFF) - 2])

\* a 2nnn that appends the return address before it looks at the depth
W_2nnn_push_then_check(s) ==
    IF Len(s.stack) >= 16
    THEN Raise([s EXCEPT !.stack = Append(s.stack, s.pc)], "Stack overflow on CALL")
    ELSE Done([s EXCEPT !.stack = Append(s.stack, s.pc),
                        !.pc = BitAnd(s.opcode, \h0FFF) - 2])

W_2nnn(s) ==
    IF Len(s.stack) >= 16 THEN Raise(s, "Stack overflow on CALL")
    ELSE Done([s EXCEPT !.stack = Append(s.stack, s.pc),
                        !.pc = BitAnd(s.opcode, \h0FFF) - 2])

\* the skips: self.pc = (self.pc + 2) & 0xFFF
W_skip(s, cond) == Done(IF cond THEN [s EXCEPT !.pc = Mask(s.pc + 2, \hFFF)] ELSE s)

W_3xkk(s) == W_skip(s, s.gpio[s.vx] = BitAnd(s.opcode, \hFF))
W_4xkk(s) == W_skip(s, s.gpio[s.vx] # BitAnd(s.opcode, \hFF))

W_5xy0(s) ==
    IF BitAnd(s.opcode, \hF) # 0 THEN Done(s)
    ELSE W_skip(s, s.gpio[s.vx] = s.gpio[s.vy])

W_6xkk(s) == Done([s EXCEPT !.gpio[s.vx] = BitAnd(s.opcode, \hFF)])

W_7xkk(s) == Done([s EXCEPT !.gpio[s.vx] = BitAnd(s.gpio[s.vx] + BitAnd(s.opcode, \hFF), \hFF)])

W_8xxx(s) ==
    LET x == s.vx
        y == s.vy
        sub == BitAnd(s.opcode, \hF)
    IN
    IF sub = 0 THEN Done([s EXCEPT !.gpio[x] = s.gpio[y]])
    ELSE IF sub = 1 THEN Done([s EXCEPT !.gpio[x] = BitOr(s.gpio[x], s.gpio[y])])
    ELSE IF sub = 2 THEN Done([s EXCEPT !.gpio[x] = BitAnd(s.gpio[x], s.gpio[y])])
    ELSE IF sub = 3 THEN Done([s EXCEPT !.gpio[x] = BitXor(s.gpio[x], s.gpio[y])])
    ELSE IF sub = 4 THEN
        LET sum == s.gpio[x] + s.gpio[y]
            s1 == [s EXCEPT !.gpio[15] = IF sum > 255 THEN 1 ELSE 0]
        IN Done([s1 EXCEPT !.gpio[x] = BitAnd(sum, \hFF)])
    ELSE IF sub = 5 THEN
        LET s1 == [s EXCEPT !.gpio[15] = IF s.gpio[x] > s.gpio[y] THEN 1 ELSE 0]
        IN Done([s1 EXCEPT !.gpio[x] = Mask(s1.gpio[x] - s1.gpio[y], \hFF)])
    ELSE IF sub = 6 THEN
        LET s1 == [s EXCEPT !.gpio[15] = BitAnd(s.gpio[x], 1)]
        IN Done([s1 EXCEPT !.gpio[x] = Shr(s1.gpio[x], 1)])
    ELSE IF sub = 7 THEN
        LET s1 == [s EXCEPT !.gpio[15] = IF s.gpio[y] > s.gpio[x] THEN 1 ELSE 0]
        IN Done([s1 EXCEPT !.gpio[x] = Mask(s1.gpio[y] - s1.gpio[x], \hFF)])
    ELSE IF sub = 14 THEN
        LET s1 == [s EXCEPT !.gpio[15] = BitAnd(Shr(s.gpio[x], 7), 1)]
        IN Done([s1 EXCEPT !.gpio[x] = BitAnd(Shl(s1.gpio[x], 1), \hFF)])
    ELSE Done(s)

W_9xy0(s) ==
    IF BitAnd(s.opcode, \hF) # 0 THEN Done(s)
    ELSE W_skip(s, s.gpio[s.vx] # s.gpio[s.vy])

W_Annn(s) == Done([s EXCEPT !.index = BitAnd(s.opcode, \h0FFF)])

W_Bnnn(s) == Done([s EXCEPT !.pc = Mask(BitAnd(s.opcode, \h0FFF) + s.gpio[0] - 2, \hFFF)])

\* rnd is the value of random.getrandbits(8)
W_Cxkk(s, rnd) == Done([s EXCEPT !.gpio[s.vx] = BitAnd(rnd, BitAnd(s.opcode, \hFF))])

\* Dxyn: the eight unrolled `if sprite & mask` statements of one row;
\* st is <<buf, collision>>
RECURSIVE W_Dxyn_bits(_, _, _, _, _)
W_Dxyn_bits(st, sprite, base, x, col) ==
    IF col >= 8 THEN st
    ELSE IF BitAnd(sprite, Shr(128, col)) # 0
         THEN LET idx == base + BitAnd(x + col, \h3F) IN
              W_Dxyn_bits(<<BitToggle(st[1], idx), BitOr(st[2], BitGet(st[1], idx))>>,
                          sprite, base, x, col + 1)
         ELSE W_Dxyn_bits(st, sprite, base, x, col + 1)

RECURSIVE W_Dxyn_rows(_, _, _, _, _, _)
W_Dxyn_rows(s, st, x, y, n, row) ==
    IF row >= n THEN st
    ELSE IF s.index + row >= 4096 THEN W_Dxyn_rows(s, st, x, y, n, row + 1)
    ELSE LET sprite == ListGet(s.memory, s.index + row, MemLen) IN
         IF sprite = 0 THEN W_Dxyn_rows(s, st, x, y, n, row + 1)
         ELSE W_Dxyn_rows(s, W_Dxyn_bits(st, sprite, BitAnd(y + row, \h1F) * 64, x, 0),
                          x, y, n, row + 1)

W_Dxyn(s) ==
    LET x == s.gpio[BitAnd(Shr(s.opcode, 8), \hF)] % width
        y == s.gpio[BitAnd(Shr(s.opcode, 4), \hF)] % height
        n == BitAnd(s.opcode, \hF)
        st == W_Dxyn_rows(s, <<s.display_buffer, 0>>, x, y, n, 0)
    IN Done([s EXCEPT !.display_buffer = st[1],
                      !.gpio[15] = IF st[2] # 0 THEN 1 ELSE 0])

W_Exxx(s) ==
    LET x == BitAnd(Shr(s.opcode, 8), \hF)
        kk == BitAnd(s.opcode, \hFF)
        key == BitAnd(s.gpio[x], \hF)
    IN
    IF kk = \h9E THEN W_skip(s, key < NumKeys /\ s.key_inputs[key] # 0)
    ELSE IF kk = \hA1 THEN W_skip(s, key < NumKeys /\ s.key_inputs[key] = 0)
    ELSE Done(s)

RECURSIVE W_store(_, _, _)
W_store(s, x, i) ==
    IF i > x THEN s
    ELSE IF s.index + i < 4096
         THEN W_store([s EXCEPT !.memory = ListSet(s.memory, s.index + i, MemLen, s.gpio[i])],
                      x, i + 1)
         ELSE W_store(s, x, i + 1)

RECURSIVE W_load(_, _, _)
W_load(s, x, i) ==
    IF i > x THEN s
    ELSE IF s.index + i < 4096
         THEN W_load([s EXCEPT !.gpio[i] = ListGet(s.memory, s.index + i, MemLen)], x, i + 1)
         ELSE W_load(s, x, i + 1)

W_Fxxx(s) ==
    LET x == BitAnd(Shr(s.opcode, 8), \hF)
        kk == BitAnd(s.opcode, \hFF)
    IN
    IF kk = \h07 THEN Done([s EXCEPT !.gpio[x] = s.delay_timer])
    ELSE IF kk = \h0A THEN
        LET pressed == {i \in 0..(NumKeys - 1) : s.key_inputs[i] # 0} IN
        IF pressed = {} THEN Done([s EXCEPT !.pc = Mask(s.pc - 2, \hFFF)])
        ELSE Done([s EXCEPT !.gpio[x] = CHOOSE i \in pressed : \A j \in pressed : i <= j])
    ELSE IF kk = \h15 THEN Done([s EXCEPT !.delay_timer = s.gpio[x]])
    ELSE IF kk = \h18 THEN
        LET s1 == [s EXCEPT !.sound_timer = s.gpio[x]] IN
        Done(IF s1.sound_timer > 0 /\ ~s1.sound_playing THEN W_play_beep(s1) ELSE s1)
    ELSE IF kk = \h1E THEN
        LET new_i == s.index + s.gpio[x]
            s1 == [s EXCEPT !.gpio[15] = IF new_i > \hFFF THEN 1 ELSE 0]
        IN Done([s1 EXCEPT !.index = BitAnd(new_i, \hFFFF)])
    ELSE IF kk = \h29 THEN Done([s EXCEPT !.index = BitAnd(s.gpio[x], \hF) * 5])
    ELSE IF kk = \h33 THEN
        LET val == s.gpio[x] IN
        IF s.index < 4094
        THEN Done([s EXCEPT !.memory =
                 ListSet(ListSet(ListSet(s.memory, s.index, MemLen, val \div 100),
                                 s.index + 1, MemLen, (val \div 10) % 10),
                         s.index + 2, MemLen, val % 10)])
        ELSE Done(s)
    ELSE IF kk = \h55 THEN Done(W_store(s, x, 0))
    ELSE IF kk = \h65 THEN Done(W_load(s, x, 0))
    ELSE Done(s)

\* "Instruction decode & dispatch": the 0x0000 group, then funcmap
W_dispatch(s, rnd) ==
    LET prefix == BitAnd(s.opcode, \hF000) IN
    IF prefix = \h0000 THEN
        IF s.opcode = \h00E0 THEN W_0E0(s)
        ELSE IF s.opcode = \h00EE THEN W_00EE(s)
        ELSE Done(s)
    ELSE IF prefix = \h1000 THEN W_1nnn(s)
    ELSE IF prefix = \h2000 THEN W_2nnn(s)
    ELSE IF prefix = \h3000 THEN W_3xkk(s)
    ELSE IF prefix = \h4000 THEN W_4xkk(s)
    ELSE IF prefix = \h5000 THEN W_5xy0(s)
    ELSE IF prefix = \h6000 THEN W_6xkk(s)
    ELSE IF prefix = \h7000 THEN W_7xkk(s)
    ELSE IF prefix = \h8000 THEN W_8xxx(s)
    ELSE IF prefix = \h9000 THEN W_9xy0(s)
    ELSE IF prefix = \hA000 THEN W_Annn(s)
    ELSE IF prefix = \hB000 THEN W_Bnnn(s)
    ELSE IF prefix = \hC000 THEN W_Cxkk(s, rnd)
    ELSE IF prefix = \hD000 THEN W_Dxyn(s)
    ELSE IF prefix = \hE000 THEN W_Exxx(s)
    ELSE W_Fxxx(s)

\* the timer section that ends cycle
W_cycle_timers(s) ==
    LET s1 == IF s.delay_timer > 0 THEN [s EXCEPT !.delay_timer = s.delay_timer - 1] ELSE s
    IN IF s1.sound_timer > 0 THEN [s1 EXCEPT !.sound_timer = s1.sound_timer - 1] ELSE s1

\* cycle(self)
W_cycle(s, rnd) ==
    IF s.pc < 0 \/ s.pc + 1 >= MemLen THEN Raise(s, "PC out of bounds")
    ELSE LET op == BitOr(Shl(ListGet(s.memory, s.pc, MemLen), 8),
                         ListGet(s.memory, s.pc + 1, MemLen))
             s1 == [s EXCEPT !.opcode = op,
                             !.vx = Shr(BitAnd(op, \h0F00), 8),
                             !.vy = Shr(BitAnd(op, \h00F0), 4)]
             r == W_dispatch(s1, rnd)
         IN IF r.raised # "" THEN r
            ELSE Done(W_cycle_timers([r.st EXCEPT !.pc = Mask(r.st.pc + 2, \hFFF)]))

\* a _cpu_tick whose except clause does not set has_exit
W_cpu_tick_keeps_running(s, rnd) ==
    IF ~s.has_exit THEN W_cycle(s, rnd) ELSE Done(s)
\* _cpu_tick(self, dt): the step the driver calls
W_cpu_tick(s, rnd) ==
    IF ~s.has_exit
    THEN LET r == W_cycle(s, rnd) IN
         IF r.raised # "" THEN [r EXCEPT !.st.has_exit = TRUE] ELSE r
    ELSE Done(s)

\* a timer tick that, like _cpu_tick, does nothing once has_exit is set
W_timer_tick_stops_when_halted(s) ==
    IF s.has_exit THEN s
    ELSE LET s1 == IF s.delay_timer > 0 THEN [s EXCEPT !.delay_timer = s.delay_timer - 1]
                   ELSE s
         IN IF s1.sound_timer > 0
            THEN LET s2 == [s1 EXCEPT !.sound_timer = s1.sound_timer - 1] IN
                 IF ~s2.sound_playing THEN W_play_beep(s2) ELSE s2
            ELSE [s1 EXCEPT !.sound_playing = FALSE]

\* _timer_tick(self, dt)
W_timer_tick(s) ==
    LET s1 == IF s.delay_timer > 0 THEN [s EXCEPT !.delay_timer = s.delay_timer - 1] ELSE s
    IN IF s1.sound_timer > 0
       THEN LET s2 == [s1 EXCEPT !.sound_timer = s1.sound_timer - 1] IN
            IF ~s2.sound_playing THEN W_play_beep(s2) ELSE s2
       ELSE [s1 EXCEPT !.sound_playing = FALSE]

\* on_key_press / on_key_release for a symbol of keymap; k = keymap[symbol]
W_on_key_press(s, k) == [s EXCEPT !.key_inputs[k] = 1]
W_on_key_release(s, k) == [s EXCEPT !.key_inputs[k] = 0]

----------------------------------------------------------------------------
(* Dispatch-table draft: class Chip8, lines 356-813 *)

\* A Python list or bytearray whose length can change is held 0-based, as a
\* function on 0..len-1 (the register list V), or as the map of its nonzero
\* cells together with its length (memory, memlen).
PyLen(l) == Cardinality(DOMAIN l)

\* a slice bound, clamped to the length as Python clamps it
Clamp(i, len) == IF i > len THEN len ELSE i
SliceStart(start, len) == Clamp(start, len)
SliceStop(start, stop, len) ==
    IF Clamp(stop, len) < Clamp(start, len) THEN Clamp(start, len) ELSE Clamp(stop, len)

\* l[start:stop]
PySlice(l, start, stop) ==
    LET a == SliceStart(start, PyLen(l))
        b == SliceStop(start, stop, PyLen(l))
    IN [j \in 0..(b - a - 1) |-> l[a + j]]

\* l[start:stop] = vals: the slice is replaced, the list grows or shrinks
PySliceAssign(l, start, stop, vals) ==
    LET a == SliceStart(start, PyLen(l))
        b == SliceStop(start, stop, PyLen(l))
        k == PyLen(vals)
    IN [j \in 0..(PyLen(l) - (b - a) + k - 1) |->
           IF j < a THEN l[j]
           ELSE IF j < a + k THEN vals[j - a]
           ELSE l[j - k + (b - a)]]

\* the same two on a bytearray held as (m, len)
ByteSlice(m, len, start, stop) ==
    LET a == SliceStart(start, len)
        b == SliceStop(start, stop, len)
    IN [j \in 0..(b - a - 1) |-> ListGet(m, a + j, len)]

ByteSliceAssign(m, len, start, stop, vals) ==
    LET a == SliceStart(start, len)
        b == SliceStop(start, stop, len)
        k == PyLen(vals)
        cells == {j \in DOMAIN m : j < a}
                     \cup {a + i : i \in {h \in DOMAIN vals : vals[h] # 0}}
                     \cup {j + k - (b - a) : j \in {h \in DOMAIN m : h >= b}}
    IN [j \in cells |->
           IF j < a THEN m[j]
           ELSE IF j < a + k THEN vals[j - a]
           ELSE m[j - k + (b - a)]]

ByteSliceAssignLen(len, start, stop, vals) ==
    len - (SliceStop(start, stop, len) - SliceStart(start, len)) + PyLen(vals)

\* a file's bytes, 0-based
ZeroBased(seq) == [j \in 0..(Len(seq) - 1) |-> seq[j + 1]]

\* np.uint16(v)
U16(v) == v % 65536

\* __init__(self, romname)
D_init(rom) ==
    LET font == LoadedMemory(<<>>, 0) IN
    [ memory |-> ByteSliceAssign(font, MemLen, 512, 512 + Len(rom), ZeroBased(rom)),
      memlen |-> ByteSliceAssignLen(MemLen, 512, 512 + Len(rom), ZeroBased(rom)),
      vram   |-> {},
      V      |-> [i \in 0..(NumRegs - 1) |-> 0],
      I      |-> 0,
      pc     |-> 512,
      stack  |-> [i \in 0..15 |-> 0],
      sp     |-> 0,
      keys   |-> [i \in 0..(NumKeys - 1) |-> 0],
      delay  |-> 0,
      sound  |-> 0,
      sound_playing |-> TRUE,
      players |-> 0 ]

\* self.V[i] exists
HasReg(s, i) == i \in DOMAIN s.V

\* op_RET
D_op_RET(s) ==
    IF s.sp = 0 THEN Done([s EXCEPT !.pc = 512])
    ELSE Done([s EXCEPT !.sp = s.sp - 1, !.pc = s.stack[s.sp - 1]])

\* op_CALL
\* an op_CALL that counts the call even when the stack is full
D_op_CALL_counts_always(s, opcode) ==
    LET s1 == IF s.sp < 16 THEN [s EXCEPT !.stack[s.sp] = s.pc, !.sp = s.sp + 1]
              ELSE [s EXCEPT !.sp = s.sp + 1]
    IN Done([s1 EXCEPT !.pc = U16(BitAnd(opcode, \h0FFF))])

D_op_CALL(s, opcode) ==
    LET s1 == IF s.sp < 16 THEN [s EXCEPT !.stack[s.sp] = s.pc, !.sp = s.sp + 1] ELSE s
    IN Done([s1 EXCEPT !.pc = U16(BitAnd(opcode, \h0FFF))])

\* the skips: if <cond>: self.pc = np.uint16(self.pc + 2); every condition
\* reads the registers `regs` first
D_skip(s, regs, cond) ==
    IF \E i \in regs : ~HasReg(s, i) THEN Raise(s, "IndexError")
    ELSE Done(IF cond THEN [s EXCEPT !.pc = U16(s.pc + 2)] ELSE s)

\* an op_RND that forgets the mask: V[x] = random.randint(0, 255)
D_op_RND_unmasked(s, x, kk, rnd) ==
    IF x \in DOMAIN s.V THEN Done([s EXCEPT !.V[x] = rnd]) ELSE Raise(s, "IndexError")

\* op_RND
D_op_RND(s, x, kk, rnd) ==
    IF x \in DOMAIN s.V THEN Done([s EXCEPT !.V[x] = BitAnd(rnd, kk)])
    ELSE Raise(s, "IndexError")

\* a handler that reads the registers `regs` and then stores v in V[x]
D_set(s, regs, x, v) ==
    IF \E i \in regs \cup {x} : ~HasReg(s, i) THEN Raise(s, "IndexError")
    ELSE Done([s EXCEPT !.V[x] = v])

\* a handler that reads the registers `regs`, stores flag in V[0xF] and then
\* v in V[x]
D_set_flag(s, regs, x, flag, v) ==
    IF \E i \in regs \cup {15, x} : ~HasReg(s, i) THEN Raise(s, "IndexError")
    ELSE Done([[s EXCEPT !.V[15] = flag] EXCEPT !.V[x] = v])

\* op_SHR: V[0xF] = V[x] & 1; V[x] >>= 1 (V[x] is read again after the flag
\* is stored)
D_op_SHR(s, x) ==
    IF ~HasReg(s, x) \/ ~HasReg(s, 15) THEN Raise(s, "IndexError")
    ELSE LET s1 == [s EXCEPT !.V[15] = BitAnd(s.V[x], 1)]
         IN Done([s1 EXCEPT !.V[x] = Shr(s1.V[x], 1)])

\* op_SUB
D_op_SUB(s, x, y) ==
    IF ~HasReg(s, x) \/ ~HasReg(s, y) \/ ~HasReg(s, 15) THEN Raise(s, "IndexError")
    ELSE LET s1 == [s EXCEPT !.V[15] = IF s.V[x] > s.V[y] THEN 1 ELSE 0]
         IN Done([s1 EXCEPT !.V[x] = Mask(s1.V[x] - s1.V[y], 255)])

\* op_SUBN
D_op_SUBN(s, x, y) ==
    IF ~HasReg(s, x) \/ ~HasReg(s, y) \/ ~HasReg(s, 15) THEN Raise(s, "IndexError")
    ELSE LET s1 == [s EXCEPT !.V[15] = IF s.V[y] > s.V[x] THEN 1 ELSE 0]
         IN Done([s1 EXCEPT !.V[x] = Mask(s1.V[y] - s1.V[x], 255)])

\* op_SHL
D_op_SHL(s, x) ==
    IF ~HasReg(s, x) \/ ~HasReg(s, 15) THEN Raise(s, "IndexError")
    ELSE LET s1 == [s EXCEPT !.V[15] = BitAnd(Shr(s.V[x], 7), 1)]
         IN Done([s1 EXCEPT !.V[x] = BitAnd(Shl(s1.V[x], 1), 255)])

\* op_DRW, the inner loop: for bit in range(8)
RECURSIVE D_DRW_bits(_, _, _, _, _, _)
D_DRW_bits(s, sprite, px, py, row, bit) ==
    IF bit >= 8 THEN s
    ELSE IF BitAnd(sprite, Shr(128, bit)) # 0
         THEN LET vx == (px + bit) % 64
                  vy == (py + row) % 32
                  index == vx + vy * 64
                  s1 == IF BitGet(s.vram, index) = 1 THEN [s EXCEPT !.V[15] = 1] ELSE s
              IN D_DRW_bits([s1 EXCEPT !.vram = BitToggle(s1.vram, index)],
                            sprite, px, py, row, bit + 1)
         ELSE D_DRW_bits(s, sprite, px, py, row, bit + 1)

\* op_DRW, the outer loop: for row in range(n)
RECURSIVE D_DRW_rows(_, _, _, _, _)
D_DRW_rows(s, px, py, n, row) ==
    IF row >= n THEN Done(s)
    ELSE IF ~InBounds(s.I + row, s.memlen) THEN Raise(s, "IndexError")
    ELSE D_DRW_rows(D_DRW_bits(s, ListGet(s.memory, s.I + row, s.memlen), px, py, row, 0),
                    px, py, n, row + 1)

\* op_DRW
D_op_DRW(s, x, y, n) ==
    IF ~HasReg(s, x) \/ ~HasReg(s, y) \/ ~HasReg(s, 15) THEN Raise(s, "IndexError")
    ELSE D_DRW_rows([s EXCEPT !.V[15] = 0], s.V[x], s.V[y], n, 0)

\* op_SKP / op_SKNP: self.keys[self.V[x]] on the 16-cell array
D_op_SKP(s, x) ==
    IF ~HasReg(s, x) THEN Raise(s, "IndexError")
    ELSE IF ~InBounds(s.V[x], NumKeys) THEN Raise(s, "IndexError")
    ELSE D_skip(s, {x}, s.keys[Cell(s.V[x], NumKeys)] # 0)

D_op_SKNP(s, x) ==
    IF ~HasReg(s, x) THEN Raise(s, "IndexError")
    ELSE IF ~InBounds(s.V[x], NumKeys) THEN Raise(s, "IndexError")
    ELSE D_skip(s, {x}, s.keys[Cell(s.V[x], NumKeys)] = 0)

\* op_WAITKEY
D_op_WAITKEY(s, x) ==
    LET pressed == {i \in 0..15 : s.keys[i] # 0} IN
    IF pressed # {}
    THEN D_set(s, {}, x, CHOOSE i \in pressed : \A j \in pressed : i <= j)
    ELSE Done([s EXCEPT !.pc = U16(s.pc - 2)])

\* op_BCD
D_op_BCD(s, x) ==
    IF ~HasReg(s, x) THEN Raise(s, "IndexError")
    ELSE LET v == s.V[x] IN
    IF ~InBounds(s.I, s.memlen) THEN Raise(s, "IndexError")
    ELSE LET s1 == [s EXCEPT !.memory = ListSet(s.memory, s.I, s.memlen, v \div 100)] IN
    IF ~InBounds(s.I + 1, s.memlen) THEN Raise(s1, "IndexError")
    ELSE LET s2 == [s1 EXCEPT !.memory =
                        ListSet(s1.memory, s.I + 1, s.memlen, (v \div 10) % 10)] IN
    IF ~InBounds(s.I + 2, s.memlen) THEN Raise(s2, "IndexError")
    ELSE Done([s2 EXCEPT !.memory = ListSet(s2.memory, s.I + 2, s.memlen, v % 10)])

\* op_STORE: self.memory[self.I:self.I + x + 1] = self.V[:x + 1]
D_op_STORE(s, x) ==
    Done([s EXCEPT
            !.memory = ByteSliceAssign(s.memory, s.memlen, s.I, s.I + x + 1,
                                       PySlice(s.V, 0, x + 1)),
            !.memlen = ByteSliceAssignLen(s.memlen, s.I, s.I + x + 1,
                                          PySlice(s.V, 0, x + 1))])

\* op_LOAD: self.V[:x + 1] = self.memory[self.I:self.I + x + 1]
D_op_LOAD(s, x) ==
    Done([s EXCEPT
            !.V = PySliceAssign(s.V, 0, x + 1,
                                ByteSlice(s.memory, s.memlen, s.I, s.I + x + 1))])

\* the (mask, pattern) pairs of the dispatch table self.opcodes
D_opcodes ==
    { <<\hFFFF, \h00E0>>, <<\hFFFF, \h00EE>>, <<\hF000, \h1000>>, <<\hF000, \h2000>>,
      <<\hF000, \h3000>>, <<\hF000, \h4000>>, <<\hF00F, \h5000>>, <<\hF000, \h6000>>,
      <<\hF000, \h7000>>, <<\hF00F, \h8000>>, <<\hF00F, \h8001>>, <<\hF00F, \h8002>>,
      <<\hF00F, \h8003>>, <<\hF00F, \h8004>>, <<\hF00F, \h8005>>, <<\hF00F, \h8006>>,
      <<\hF00F, \h8007>>, <<\hF00F, \h800E>>, <<\hF00F, \h9000>>, <<\hF000, \hA000>>,
      <<\hF000, \hD000>>, <<\hF0FF, \hE09E>>, <<\hF0FF, \hE0A1>>, <<\hF0FF, \hF007>>,
      <<\hF0FF, \hF00A>>, <<\hF0FF, \hF015>>, <<\hF0FF, \hF018>>, <<\hF0FF, \hF01E>>,
      <<\hF0FF, \hF029>>, <<\hF0FF, \hF033>>, <<\hF0FF, \hF055>>, <<\hF0FF, \hF065>>,
      <<\hF000, \hC000>> }

\* some entry of the table matches the word
D_has_handler(opcode) == \E e \in D_opcodes : BitAnd(opcode, e[1]) = e[2]

\* handler(opcode) for the entry the word matches (the patterns are disjoint,
\* so the first match is the only one); rnd is what random.randint(0, 255)
\* returns
D_handler(s, opcode, rnd) ==
    LET x   == BitAnd(Shr(opcode, 8), \hF)
        y   == BitAnd(Shr(opcode, 4), \hF)
        kk  == BitAnd(opcode, \hFF)
        hi  == BitAnd(opcode, \hF000)
        hl  == BitAnd(opcode, \hF00F)
        hb  == BitAnd(opcode, \hF0FF)
    IN
    IF opcode = \h00E0 THEN Done([s EXCEPT !.vram = {}])
    ELSE IF opcode = \h00EE THEN D_op_RET(s)
    ELSE IF hi = \h1000 THEN Done([s EXCEPT !.pc = U16(BitAnd(opcode, \h0FFF))])
    ELSE IF hi = \h2000 THEN D_op_CALL(s, opcode)
    ELSE IF hi = \h3000 THEN D_skip(s, {x}, s.V[x] = kk)
    ELSE IF hi = \h4000 THEN D_skip(s, {x}, s.V[x] # kk)
    ELSE IF hl = \h5000 THEN D_skip(s, {x, y}, s.V[x] = s.V[y])
    ELSE IF hi = \h6000 THEN D_set(s, {}, x, kk)
    ELSE IF hi = \h7000 THEN D_set(s, {x}, x, BitAnd(s.V[x] + kk, \hFF))
    ELSE IF hl = \h8000 THEN D_set(s, {y}, x, s.V[y])
    ELSE IF hl = \h8001 THEN D_set(s, {x, y}, x, BitOr(s.V[x], s.V[y]))
    ELSE IF hl = \h8002 THEN D_set(s, {x, y}, x, BitAnd(s.V[x], s.V[y]))
    ELSE IF hl = \h8003 THEN D_set(s, {x, y}, x, BitXor(s.V[x], s.V[y]))
    ELSE IF hl = \h8004 THEN D_set_flag(s, {x, y}, x,
                                        IF s.V[x] + s.V[y] > \hFF THEN 1 ELSE 0,
                                        BitAnd(s.V[x] + s.V[y], \hFF))
    ELSE IF hl = \h8005 THEN D_op_SUB(s, x, y)
    ELSE IF hl = \h8006 THEN D_op_SHR(s, x)
    ELSE IF hl = \h8007 THEN D_op_SUBN(s, x, y)
    ELSE IF hl = \h800E THEN D_op_SHL(s, x)
    ELSE IF hl = \h9000 THEN D_skip(s, {x, y}, s.V[x] # s.V[y])
    ELSE IF hi = \hA000 THEN Done([s EXCEPT !.I = U16(BitAnd(opcode, \h0FFF))])
    ELSE IF hi = \hD000 THEN D_op_DRW(s, x, y, BitAnd(opcode, \hF))
    ELSE IF hb = \hE09E THEN D_op_SKP(s, x)
    ELSE IF hb = \hE0A1 THEN D_op_SKNP(s, x)
    ELSE IF hb = \hF007 THEN D_set(s, {}, x, s.delay)
    ELSE IF hb = \hF00A THEN D_op_WAITKEY(s, x)
    ELSE IF hb = \hF015 THEN
        IF HasReg(s, x) THEN Done([s EXCEPT !.delay = s.V[x]]) ELSE Raise(s, "IndexError")
    ELSE IF hb = \hF018 THEN
        IF HasReg(s, x) THEN Done([s EXCEPT !.sound = s.V[x]]) ELSE Raise(s, "IndexError")
    ELSE IF hb = \hF01E THEN
        IF HasReg(s, x) THEN Done([s EXCEPT !.I = BitAnd(s.I + s.V[x], \hFFF)])
        ELSE Raise(s, "IndexError")
    ELSE IF hb = \hF029 THEN
        IF HasReg(s, x) THEN Done([s EXCEPT !.I = s.V[x] * 5]) ELSE Raise(s, "IndexError")
    ELSE IF hb = \hF033 THEN D_op_BCD(s, x)
    ELSE IF hb = \hF055 THEN D_op_STORE(s, x)
    ELSE IF hb = \hF065 THEN D_op_LOAD(s, x)
    ELSE D_op_RND(s, x, kk, rnd)

\* the loop over self.opcodes; a word no entry matches is only printed
D_dispatch(s, opcode, rnd) ==
    IF D_has_handler(opcode) THEN D_handler(s, opcode, rnd) ELSE Done(s)

\* opcode = (int(self.memory[self.pc]) << 8) | int(self.memory[self.pc + 1])
D_fetch(s) ==
    BitOr(Shl(ListGet(s.memory, s.pc, s.memlen), 8), ListGet(s.memory, s.pc + 1, s.memlen))

\* what random.randint(0, 255) can return during the tick that starts in s:
\* any byte if the word at pc is Cxkk; no other handler draws a number
D_draws(s) ==
    IF InBounds(s.pc, s.memlen) /\ InBounds(s.pc + 1, s.memlen)
       /\ BitAnd(D_fetch(s), \hF000) = \hC000
    THEN 0..255 ELSE {0}

\* tick(self, dt)
D_tick(s, rnd) ==
    IF ~InBounds(s.pc, s.memlen) \/ ~InBounds(s.pc + 1, s.memlen)
    THEN Raise(s, "IndexError")
    ELSE CHOOSE r \in { D_dispatch([s EXCEPT !.pc = U16(s.pc + 2)], opcode, rnd) :
                          opcode \in {D_fetch(s)} } : TRUE

\* _play_beep: a player is started and sound_playing set; `players` counts
\* the players whose on_eos has not run yet
D_play_beep(s) == [s EXCEPT !.sound_playing = TRUE, !.players = s.players + 1]

\* on_eos, the closure _play_beep hands to its player
D_on_eos(s) == [s EXCEPT !.sound_playing = FALSE, !.players = s.players - 1]

\* a timer tick that counts the sound timer down only while the delay timer
\* is running
D_timer_tick_coupled(s) ==
    IF s.delay > 0
    THEN LET s1 == [s EXCEPT !.delay = s.delay - 1] IN
         IF s1.sound > 0
         THEN LET s2 == [s1 EXCEPT !.sound = s1.sound - 1] IN
              IF ~s2.sound_playing THEN D_play_beep(s2) ELSE s2
         ELSE [s1 EXCEPT !.sound_playing = FALSE]
    ELSE s

\* _timer_tick(self, dt)
D_timer_tick(s) ==
    LET s1 == IF s.delay > 0 THEN [s EXCEPT !.delay = s.delay - 1] ELSE s
    IN IF s1.sound > 0
       THEN LET s2 == [s1 EXCEPT !.sound = s1.sound - 1] IN
            IF ~s2.sound_playing THEN D_play_beep(s2) ELSE s2
       ELSE [s1 EXCEPT !.sound_playing = FALSE]

\* on_key_press / on_key_release for a symbol of keymap; k = keymap[symbol]
D_on_key_press(s, k) == [s EXCEPT !.keys[k] = 1]
D_on_key_release(s, k) == [s EXCEPT !.keys[k] = 0]

----------------------------------------------------------------------------
(* Programs explored.  A program is its sequence of 16-bit words, loaded   *)
(* at 0x200; word i sits at 0x200 + 2*(i-1).                               *)

AllKeys == 0..(NumKeys - 1)

\* register values set up ahead of an instruction under test: V0, V1
Setups == { <<0, 0>>, <<255, 1>>, <<16, 200>>, <<3, 3>>, <<1, 255>> }

\* words the Take4 chain has no branch for
UnknownWords ==
    { \h0000, \h0123, \h00E1, \h5011, \h5FF1, \h8008, \h801F, \h9001,
      \hC0FF, \hC1A5, \hE09F, \hE1A0, \hF000, \hF108, \hF0FF }

\* Bnnn, which the Take4 chain has no branch for either: JP V0 + 0x20A
JumpV0Words == { \hB20A }

\* words of the instruction table, operands on V0 / V1 / V2 / VF
KnownWords ==
    { \h00E0, \h00EE, \h120C, \h220C, \h30FF, \h4003, \h5010, \h61AA, \h7002, \h70FF,
      \h8010, \h8011, \h8012, \h8013, \h8014, \h8F14, \h8015, \h80F5, \h8016, \h8017,
      \h801E, \h9010, \hA2F0, \hD011, \hD015, \hE09E, \hE0A1, \hE19E, \hF207, \hF00A,
      \hF215, \hF218, \hF01E, \hF029, \hF033, \hF155, \hF165 }

\* LD V0,a; LD V1,b; LD V2,2; LD I,0x345; <w>; then three halts (JP to
\* itself), so that a skip or a return to the following word also comes to
\* rest
OneWord(a, b, w) ==
    << \h6000 + a, \h6100 + b, \h6202, \hA345, w, \h120A, \h120C, \h120E >>

\* CALL / RET programs
CallSelf == << \h2200 >>                                \* CALL 0x200 at 0x200
RetFirst == << \h00EE >>                                \* RET on the empty stack
RoundTrip == << \h2206, \h6A01, \h1204, \h220A, \h00EE, \h00EE >>

\* timers: LD V0,v; LD DT,V0; LD ST,V0; LD V1,DT; LD V2,DT; halt
TimerProg(v) == << \h6000 + v, \hF015, \hF018, \hF107, \hF207, \h120A >>

\* key wait: LD Vx,0x55; LD Vx,K; then JP back to the wait or a halt
WaitProg(x, back) ==
    << \h6000 + x * 256 + \h55, \hF00A + x * 256, IF back THEN \h1202 ELSE \h1204 >>

\* key skips on V0 = k
SkipProg(k, w) == << \h6000 + k, w, \h1204, \h1206 >>

\* I-relative accesses that run past the last cell:
\* LD I,a; LD V0,0x9D; LD V1,0x22; <w>; halt
HighProg(a, w) == << \hA000 + a, \h609D, \h6122, w, \h1208 >>

\* JP 0xFFF
JumpLast == << \h1FFF >>

\* sprites: LD V0,vx; LD V1,vy; LD V2,g1; LD V3,g2; FONT V2; DRW V0,V1,n;
\* FONT V3; DRW V0,V1,n twice; halt.  Glyph 0 lies inside glyph 8.
DrawProg(vx, vy, g1, g2, n) ==
    << \h6000 + vx, \h6100 + vy, \h6200 + g1, \h6300 + g2, \hF229, \hD010 + n,
       \hF329, \hD010 + n, \hD010 + n, \h1212 >>

\* JP 0xFFE: the word at 0xFFE..0xFFF (0000) is the last one a fetch can read
JumpHigh == << \h1FFE >>

\* timers left running by a program that then faults (RET on the empty
\* stack): LD V0,5; LD DT,V0; LD ST,V0; RET
HaltTimed == << \h6005, \hF015, \hF018, \h00EE >>

\* timers left running by a program that then waits for a key:
\* LD V0,5; LD DT,V0; LD V1,K; halt
WaitTimed == << \h6005, \hF015, \hF10A, \h1206 >>

\* the sound timer set again and again: LD V0,2; LD ST,V0; JP 0x202
SoundProg == << \h6002, \hF018, \h1202 >>

\* a ROM file one word longer than the room above 0x200: JP 0x200, zeros,
\* 0x00CD in the last word that fits, 0x00AB in the word that does not
BigRomWords == (MemLen - 512) \div 2 + 1
BigRom ==
    [i \in 1..BigRomWords |->
        IF i = 1 THEN \h1200
        ELSE IF i = BigRomWords - 1 THEN \h00CD
        ELSE IF i = BigRomWords THEN \h00AB
        ELSE 0]

\* ADD Vx,kk with VF = 1 and VE = 7 beforehand: LD V0,0xFF; LD V1,1;
\* ADD V0,V1 (carry); LD VE,7; ADD Vx,kk; halt
AddByteProg(x, kk) ==
    << \h60FF, \h6101, \h8014, \h6E07, \h7000 + x * 256 + kk, \h120A >>

Scenarios ==
    { [rom |-> r, user |-> {}] : r \in {HaltTimed, SoundProg, BigRom} }
    \cup { [rom |-> AddByteProg(x, kk), user |-> {}] :
          x \in {0, 14, 15}, kk \in {0, 1, 255} }
    \cup { [rom |-> WaitTimed, user |-> {3}] }
    \cup
    { [rom |-> OneWord(su[1], su[2], w), user |-> {}] :
          su \in Setups, w \in UnknownWords }
    \cup { [rom |-> OneWord(v0, 1, w), user |-> {}] :
          v0 \in {0, 2}, w \in JumpV0Words }
    \cup { [rom |-> OneWord(su[1], su[2], w), user |-> {3}] :
          su \in Setups, w \in KnownWords }
    \cup { [rom |-> r, user |-> {}] :
          r \in {CallSelf, RetFirst, RoundTrip, JumpLast, JumpHigh} }
    \cup { [rom |-> TimerProg(v), user |-> {}] : v \in {0, 1, 3} }
    \cup { [rom |-> WaitProg(7, FALSE), user |-> AllKeys] }
    \cup { [rom |-> WaitProg(x, back), user |-> {0, 3, 15}] :
          x \in {0, 15}, back \in BOOLEAN }
    \cup { [rom |-> SkipProg(k, w), user |-> {0, 3, 15}] :
          k \in {3, 15, 16, 255}, w \in {\hE09E, \hE0A1} }
    \cup { [rom |-> HighProg(a, w), user |-> {}] :
          a \in {\hFFD, \hFFE, \hFFF},
          w \in {\hD013, \hF033, \hF155, \hF165, \hF01E} }
    \cup { [rom |-> HighProg(\hFF0, w), user |-> {}] : w \in {\hFF55, \hFF65} }
    \cup { [rom |-> DrawProg(p[1], p[2], g[1], g[2], 5), user |-> {}] :
          p \in {<<0, 0>>, <<62, 30>>, <<255, 255>>},
          g \in {<<0, 8>>, <<8, 0>>, <<1, 1>>} }
    \cup { [rom |-> DrawProg(60, 20, 0, 1, 15), user |-> {}] }

\* JP V0 + nnn: LD V0,v0; JP V0,nnn
JumpV0Prog(v0, nnn) == << \h6000 + v0, \hB000 + nnn >>

\* jumps and calls to the first cells of memory and across its end, run on
\* the Working draft
WorkingScenarios ==
    { [rom |-> << w >>, user |-> {}] : w \in {\h1000, \h2000, \h2001} }
    \cup { [rom |-> JumpV0Prog(j[1], j[2]), user |-> {}] :
          j \in { <<255, \hFFF>>, <<2, \hFFF>> } }

\* the programs the dispatch-table draft is run on
DispatchScenarios ==
    { [rom |-> OneWord(su[1], su[2], w), user |-> {}] :
          su \in Setups, w \in KnownWords \cup {\hC0FF, \hC1A5, \h0123, \hB20A} }
    \cup { [rom |-> r, user |-> {}] :
          r \in {CallSelf, RetFirst, RoundTrip, HaltTimed, SoundProg, BigRom} }
    \cup { [rom |-> TimerProg(v), user |-> {}] : v \in {0, 1, 3} }
    \cup { [rom |-> WaitTimed, user |-> {3}] }
    \cup { [rom |-> WaitProg(x, TRUE), user |-> {0, 3}] : x \in {0, 15} }
    \cup { [rom |-> SkipProg(k, w), user |-> {3}] :
          k \in {3, 16}, w \in {\hE09E, \hE0A1} }
    \cup { [rom |-> HighProg(a, w), user |-> {}] :
          a \in {\hFFD, \hFFE, \hFFF},
          w \in {\hD013, \hF033, \hF155, \hF165, \hF01E} }
    \cup { [rom |-> DrawProg(62, 30, 0, 8, 5), user |-> {}] }

Drafts == {"Take4", "Working", "Dispatch"}

\* the random bytes tried for Cxkk
RandBytes == {(85 * i) % 256 : i \in 0..MaxRand}

----------------------------------------------------------------------------
(* The state machine *)

NoStep == [event |-> "init", opcode |-> -1, at |-> -1, raised |-> ""]

\* Chip8(sys.argv[1]) in the __main__ block of the draft; Take4's
\* __init__ is left by the IndexError of a ROM longer than the room above
\* 0x200, before the window is shown
Init ==
    /\ draft \in Drafts
    /\ \E sc \in IF draft = "Dispatch" THEN DispatchScenarios
                 ELSE IF draft = "Working" THEN Scenarios \cup WorkingScenarios
                 ELSE Scenarios :
        /\ user = sc.user
        /\ romfile = RomBytes(sc.rom)
    /\ chip8 = IF draft = "Take4" THEN T4_init(romfile)
               ELSE IF draft = "Working" THEN W_init(romfile)
               ELSE D_init(romfile)
    /\ uncaught = IF draft = "Take4" /\ Len(romfile) > MemLen - 512 THEN "IndexError" ELSE ""
    /\ last = NoStep

\* the key-state list of the running draft
KeyState == IF draft = "Working" THEN chip8.key_inputs ELSE chip8.keys
Held == {k \in AllKeys : KeyState[k] # 0}

\* Take4: pyglet calls tick every 1/600 s; an exception that leaves tick
\* ends the process
Tick ==
    /\ draft = "Take4"
    /\ uncaught = ""
    /\ \E r \in {T4_tick(chip8)} :
        /\ Len(r.st.stack) <= MaxStack
        /\ chip8' = r.st
        /\ uncaught' = r.raised
        /\ last' = [event |-> "step",
                    opcode |-> IF InBounds(chip8.pc, MemLen) /\ InBounds(chip8.pc + 1, MemLen)
                               THEN T4_fetch(chip8) ELSE -1,
                    at |-> chip8.pc,
                    raised |-> r.raised]
    /\ UNCHANGED <<draft, user, romfile>>

\* Working draft: pyglet calls _cpu_tick every 1/cpu_hz s
CpuTick ==
    /\ draft = "Working"
    /\ \E rnd \in RandBytes : \E r \in {W_cpu_tick(chip8, rnd)} :
        /\ chip8' = r.st
        /\ last' = [event |-> "step",
                    opcode |-> IF chip8.has_exit \/ r.raised = "PC out of bounds"
                               THEN -1 ELSE r.st.opcode,
                    at |-> chip8.pc,
                    raised |-> r.raised]
    /\ UNCHANGED <<draft, uncaught, user, romfile>>

\* Working draft: pyglet calls _timer_tick every 1/timer_HZ s
TimerTick ==
    /\ draft = "Working"
    /\ chip8' = W_timer_tick(chip8)
    /\ last' = [last EXCEPT !.event = "timer"]
    /\ UNCHANGED <<draft, uncaught, user, romfile>>

\* dispatch-table draft: pyglet calls tick every 1/600 s; an exception that
\* leaves tick ends the process
DispatchTick ==
    /\ draft = "Dispatch"
    /\ uncaught = ""
    /\ \E rnd \in D_draws(chip8) : \E r \in {D_tick(chip8, rnd)} :
        /\ chip8' = r.st
        /\ uncaught' = r.raised
        /\ last' = [event |-> "step",
                    opcode |-> IF InBounds(chip8.pc, chip8.memlen)
                                  /\ InBounds(chip8.pc + 1, chip8.memlen)
                               THEN D_fetch(chip8) ELSE -1,
                    at |-> chip8.pc,
                    raised |-> r.raised]
    /\ UNCHANGED <<draft, user, romfile>>

\* dispatch-table draft: pyglet calls _timer_tick every 1/60 s
DispatchTimerTick ==
    /\ draft = "Dispatch"
    /\ uncaught = ""
    /\ \E s \in {D_timer_tick(chip8)} :
        /\ s.players <= MaxPlayers
        /\ chip8' = s
    /\ last' = [last EXCEPT !.event = "timer"]
    /\ UNCHANGED <<draft, uncaught, user, romfile>>

\* dispatch-table draft: a beep player reaches the end of its sound
EndOfStream ==
    /\ draft = "Dispatch"
    /\ uncaught = ""
    /\ chip8.players > 0
    /\ chip8' = D_on_eos(chip8)
    /\ last' = [last EXCEPT !.event = "eos"]
    /\ UNCHANGED <<draft, uncaught, user, romfile>>

\* the user presses a keypad key
KeyPress ==
    /\ uncaught = ""
    /\ Cardinality(Held) < MaxHeld
    /\ \E k \in user \ Held :
        chip8' = IF draft = "Take4" THEN T4_on_key_press(chip8, k)
                 ELSE IF draft = "Working" THEN W_on_key_press(chip8, k)
                 ELSE D_on_key_press(chip8, k)
    /\ last' = [last EXCEPT !.event = "key"]
    /\ UNCHANGED <<draft, uncaught, user, romfile>>

\* the user releases a key
KeyRelease ==
    /\ uncaught = ""
    /\ \E k \in Held :
        chip8' = IF draft = "Take4" THEN T4_on_key_release(chip8, k)
                 ELSE IF draft = "Working" THEN W_on_key_release(chip8, k)
                 ELSE D_on_key_release(chip8, k)
    /\ last' = [last EXCEPT !.event = "key"]
    /\ UNCHANGED <<draft, uncaught, user, romfile>>

Next ==
    \/ Tick
    \/ CpuTick
    \/ TimerTick
    \/ DispatchTick
    \/ DispatchTimerTick
    \/ EndOfStream
    \/ KeyPress
    \/ KeyRelease

Spec == Init /\ [][Next]_vars

TypeOK ==
    /\ draft \in Drafts
    /\ uncaught \in {"", "IndexError"}
    /\ last.event \in {"init", "step", "key", "timer", "eos"}

\* Take4 alone on the key-wait programs, with the clock that keeps calling
\* tick (pyglet.clock.schedule_interval(self.tick, 1 / 600.0))
WaitKeys == {0, 3, 15}
WaitScenarios ==
    { [rom |-> WaitProg(x, back), user |-> WaitKeys] : x \in {0, 15}, back \in BOOLEAN }

InitKeyWait ==
    /\ draft = "Take4"
    /\ \E sc \in WaitScenarios :
        /\ user = sc.user
        /\ romfile = RomBytes(sc.rom)
    /\ chip8 = T4_init(romfile)
    /\ uncaught = ""
    /\ last = NoStep

NextKeyWait == Tick \/ KeyPress \/ KeyRelease

SpecKeyWait == InitKeyWait /\ [][NextKeyWait]_vars /\ WF_vars(Tick)

----------------------------------------------------------------------------
(* Vocabulary of the properties *)

\* the transition is a step (tick / _cpu_tick) of the running draft
Stepped == last'.event = "step"
\* the state is the one a step has just left
JustStepped == last.event = "step"

Regs  == IF draft = "Working" THEN chip8.gpio ELSE chip8.V
IReg  == IF draft = "Working" THEN chip8.index ELSE chip8.I
Frame == IF draft = "Working" THEN chip8.display_buffer ELSE chip8.vram
Delay == IF draft = "Working" THEN chip8.delay_timer ELSE chip8.delay
Sound == IF draft = "Working" THEN chip8.sound_timer ELSE chip8.sound

\* pc, V0..VF, I, the call stack, memory and the framebuffer
Machine == <<chip8.pc, Regs, IReg, chip8.stack, chip8.memory, Frame>>
\* the same without pc
Data == <<Regs, IReg, chip8.stack, chip8.memory, Frame>>

OpX(opcode) == (opcode \div 256) % 16
OpNNN(opcode) == opcode % 4096
IsCALL(opcode) == opcode \div 4096 = 2
IsRET(opcode) == opcode = \h00EE
IsWaitKey(opcode) == opcode \div 4096 = 15 /\ opcode % 256 = \h0A
IsLdDT(opcode) == opcode \div 4096 = 15 /\ opcode % 256 = \h15
IsLdST(opcode) == opcode \div 4096 = 15 /\ opcode % 256 = \h18
\* DRW, Fx33, Fx55, Fx65
IsIndexed(opcode) ==
    \/ opcode \div 4096 = 13
    \/ opcode \div 4096 = 15 /\ opcode % 256 \in {\h33, \h55, \h65}

StackFaults == {"Stack overflow on CALL", "Stack underflow on 00EE"}

----------------------------------------------------------------------------
(* C1..C10 *)

\* C1 (as claimed): in Take4 the call stack never holds more than 16 return
\* addresses: the 17th nested CALL faults instead of pushing.
C1_StackDiscipline ==
    draft = "Take4" => Len(chip8.stack) <= 16

\* C2: in the Working draft a step that faults with stack overflow or stack
\* underflow leaves has_exit true; has_exit is never reset, and from a state
\* with has_exit true no transition changes pc, V0..VF, I, the stack, memory
\* or the framebuffer.
C2_HaltedIsTerminal ==
    [][ draft = "Working" =>
          /\ (Stepped /\ last'.raised \in StackFaults => chip8'.has_exit)
          /\ (chip8.has_exit => chip8'.has_exit /\ Machine' = Machine) ]_vars

\* C2, witness: halted by the overflowing 17th CALL, and a later step has run
C2_Witness ==
    /\ draft = "Working" /\ chip8.has_exit
    /\ IsCALL(chip8.opcode) /\ Len(chip8.stack) = 16
    /\ JustStepped /\ last.raised = "" /\ last.opcode = -1

\* C3: in Take4 a CALL nnn fetched at address a with fewer than 16 entries
\* pushes a+2 and jumps to nnn; a RET on a nonempty stack pops the top entry
\* into pc; no other instruction changes the stack.  Hence the RET that
\* balances a CALL made at a returns to a+2 at the depth before the CALL.
C3_CallReturnRoundTrip ==
    [][ draft = "Take4" /\ Stepped /\ last'.opcode # -1 =>
          /\ (IsCALL(last'.opcode) /\ Len(chip8.stack) < 16 =>
                /\ chip8'.stack = Append(chip8.stack, last'.at + 2)
                /\ chip8'.pc = OpNNN(last'.opcode))
          /\ (IsRET(last'.opcode) /\ chip8.stack # <<>> =>
                /\ chip8'.pc = chip8.stack[Len(chip8.stack)]
                /\ chip8'.stack = SubSeq(chip8.stack, 1, Len(chip8.stack) - 1))
          /\ (~IsCALL(last'.opcode) /\ ~IsRET(last'.opcode) =>
                chip8'.stack = chip8.stack) ]_vars

\* C3, witness: RoundTrip's outer CALL at 0x200 has been returned from, past
\* a nested CALL / RET pair: pc = 0x202 and the stack is empty again
C3_Witness ==
    /\ draft = "Take4" /\ JustStepped /\ IsRET(last.opcode) /\ last.raised = ""
    /\ last.at = \h208 /\ chip8.pc = \h202 /\ chip8.stack = <<>>

\* C4 (as claimed): a step changes the delay timer only when its opcode is
\* Fx15 and the sound timer only when its opcode is Fx18.
C4_StepLeavesTimers ==
    [][ Stepped =>
          /\ (Delay' # Delay => IsLdDT(last'.opcode))
          /\ (Sound' # Sound => IsLdST(last'.opcode)) ]_vars

\* C5: in Take4 a step on Fx0A with no key pressed leaves pc (still the
\* address of the Fx0A) and Vx unchanged; with k the only pressed key it
\* sets Vx = k and leaves pc at the address following the Fx0A.
C5_KeyWaitStall ==
    [][ draft = "Take4" /\ Stepped /\ IsWaitKey(last'.opcode) =>
          /\ (Held = {} =>
                /\ chip8'.pc = chip8.pc
                /\ chip8'.V[OpX(last'.opcode)] = chip8.V[OpX(last'.opcode)])
          /\ \A k \in AllKeys :
                Held = {k} =>
                    /\ chip8'.V[OpX(last'.opcode)] = k
                    /\ chip8'.pc = chip8.pc + 2 ]_vars

\* C5, witness: after stalling at 0x202, the wait on V7 has ended with key
\* 15, the only key held
C5_Witness ==
    /\ draft = "Take4" /\ JustStepped /\ last.opcode = \hF70A /\ last.at = \h202
    /\ Held = {15} /\ chip8.V[7] = 15 /\ chip8.pc = \h204

\* the machine is stalled on Fx0A: its most recent step ran a key wait that
\* found no key and left pc on the Fx0A
Waiting ==
    /\ draft = "Take4" /\ uncaught = ""
    /\ last.opcode # -1 /\ IsWaitKey(last.opcode) /\ last.raised = ""
    /\ chip8.pc = last.at
\* the step just taken ended a key wait
LeftStall ==
    JustStepped /\ IsWaitKey(last.opcode) /\ last.raised = "" /\ chip8.pc = last.at + 2

\* C6 (as claimed): if key k is pressed while the machine is stalled on
\* Fx0A then it eventually leaves the stall with Vx = k.
C6_PressedKeyIsDelivered ==
    \A k \in WaitKeys :
        (Waiting /\ chip8.keys[k] # 0)
            ~> (LeftStall /\ chip8.V[OpX(last.opcode)] = k)

\* C6 (amended): if key k is held while the machine is stalled on Fx0A then
\* eventually the stall is left or k has been released; and the step that
\* leaves the stall sets Vx to the lowest-numbered key held at that step.
C6_HeldKeyEndsStall ==
    /\ \A k \in WaitKeys :
          (Waiting /\ chip8.keys[k] # 0) ~> (LeftStall \/ chip8.keys[k] = 0)
    /\ [][ draft = "Take4" /\ Stepped /\ IsWaitKey(last'.opcode) /\ Held # {} =>
              /\ chip8'.pc = last'.at + 2
              /\ chip8'.V[OpX(last'.opcode)] \in Held
              /\ \A j \in Held : chip8'.V[OpX(last'.opcode)] <= j ]_vars

\* C6, witness: two keys held, the wait on VF has ended with the lower one
C6_Witness ==
    /\ LeftStall /\ last.opcode = \hFF0A
    /\ Held = {3, 15} /\ chip8.V[15] = 3

\* C7 (as claimed): a step that fetches at 0xFFF reads its opcode and
\* executes it; it raises no fault.
C7_FetchWraps ==
    JustStepped /\ last.at = \hFFF => last.raised = "" /\ last.opcode # -1

\* C8 (as claimed): in Take4 no step on DRW, Fx33, Fx55 or Fx65 raises an
\* out-of-range fault, whatever I is.
C8_IndexedAccessWraps ==
    draft = "Take4" /\ JustStepped /\ last.opcode # -1 /\ IsIndexed(last.opcode)
        => last.raised = ""

\* C9 (as claimed): in Take4 no step ends in an uncaught host exception.
C9_NoHostException ==
    draft = "Take4" => uncaught = ""

\* C10: in Take4 a step on a fetched word that matches none of the chain's
\* patterns raises nothing, advances pc by exactly 2 and leaves V0..VF, I,
\* the stack, memory and the framebuffer unchanged.
C10_UnknownOpcodeSkipped ==
    [][ draft = "Take4" /\ Stepped /\ last'.opcode # -1 /\ ~T4_has_branch(last'.opcode) =>
          /\ last'.raised = ""
          /\ chip8'.pc = chip8.pc + 2
          /\ Data' = Data ]_vars

\* C10, witness: 5011 (no 5xy1 in the chain) was stepped over with
\* V0 = V1 = 3 and I = 0x345
C10_Witness ==
    /\ draft = "Take4" /\ JustStepped /\ last.opcode = \h5011 /\ last.raised = ""
    /\ chip8.pc = last.at + 2 /\ chip8.V[0] = 3 /\ chip8.V[1] = 3 /\ chip8.I = \h345

----------------------------------------------------------------------------
(* C11..C20 *)

IsJpV0(opcode) == opcode \div 4096 = 11
IsRnd(opcode) == opcode \div 4096 = 12
IsAddI(opcode) == opcode \div 4096 = 15 /\ opcode % 256 = \h1E

\* C11 (as claimed): in Take4 Bnnn and Cxkk have branches of their own: a
\* step on Bnnn leaves pc = (nnn + V0) mod 4096, and a step on Cxkk leaves
\* in Vx a byte with no bit set outside kk.
C11_DecodeComplete ==
    [][ draft = "Take4" /\ Stepped /\ last'.opcode # -1 =>
          /\ (IsJpV0(last'.opcode) \/ IsRnd(last'.opcode) => T4_has_branch(last'.opcode))
          /\ (IsJpV0(last'.opcode) =>
                chip8'.pc = (OpNNN(last'.opcode) + chip8.V[0]) % 4096)
          /\ (IsRnd(last'.opcode) =>
                BitAnd(chip8'.V[OpX(last'.opcode)], 255 - (last'.opcode % 256)) = 0) ]_vars

IsDRW(opcode) == opcode \div 4096 = 13
OpY(opcode) == (opcode \div 16) % 16
OpN(opcode) == opcode % 16

\* the framebuffer cells under the 1 bits of the n-row sprite at memory[I..],
\* placed at (vx, vy) with both coordinates wrapped; bit 7 is column 0
SpriteCells(s, vx, vy, n) ==
    { ((vx + col) % width) + ((vy + row) % height) * width :
        <<row, col>> \in { rc \in (0..(n - 1)) \X (0..7) :
                             Bit(ListGet(s.memory, s.I + rc[1], MemLen), 7 - rc[2]) = 1 } }

\* C12: in Take4, after a DRW with operands other than VF that raised
\* nothing, running the same DRW again gives back the framebuffer of before
\* the first draw, with VF = 1 exactly when the first draw turned a pixel on.
C12_DrawTwiceRestores ==
    [][ draft = "Take4" /\ Stepped /\ last'.opcode # -1 /\ IsDRW(last'.opcode)
          /\ last'.raised = "" /\ OpX(last'.opcode) # 15 /\ OpY(last'.opcode) # 15 =>
            /\ T4_execute(chip8', last'.opcode).raised = ""
            /\ T4_execute(chip8', last'.opcode).st.vram = chip8.vram
            /\ T4_execute(chip8', last'.opcode).st.V[15] =
                  (IF chip8'.vram \ chip8.vram # {} THEN 1 ELSE 0) ]_vars

\* C12, witness: glyph 0 drawn at (62, 30), glyph 8 drawn over it twice:
\* the second of the two has run, the frame shows glyph 0 alone and VF = 1
C12_Witness ==
    /\ draft = "Take4" /\ JustStepped /\ last.opcode = \hD015 /\ last.at = \h210
    /\ chip8.V[0] = 62 /\ chip8.V[1] = 30 /\ chip8.V[2] = 0 /\ chip8.V[3] = 8
    /\ chip8.vram = SpriteCells([chip8 EXCEPT !.I = 0], 62, 30, 5)
    /\ chip8.V[15] = 1

\* C13: in Take4 a DRW that raised nothing toggles exactly the cells
\* ((Vx + col) mod 64, (Vy + row) mod 32) under the 1 bits of the sprite
\* and leaves VF = 1 if one of them was lit before, VF = 0 otherwise.
C13_SpriteWrapsAndCollides ==
    [][ draft = "Take4" /\ Stepped /\ last'.opcode # -1 /\ IsDRW(last'.opcode)
          /\ last'.raised = "" =>
            /\ chip8'.vram =
                  (chip8.vram \ SpriteCells(chip8, chip8.V[OpX(last'.opcode)],
                                            chip8.V[OpY(last'.opcode)], OpN(last'.opcode)))
                  \cup (SpriteCells(chip8, chip8.V[OpX(last'.opcode)],
                                    chip8.V[OpY(last'.opcode)], OpN(last'.opcode))
                        \ chip8.vram)
            /\ chip8'.V[15] =
                  (IF SpriteCells(chip8, chip8.V[OpX(last'.opcode)],
                                  chip8.V[OpY(last'.opcode)], OpN(last'.opcode))
                        \cap chip8.vram # {} THEN 1 ELSE 0) ]_vars

\* C13, witness: glyph 8 drawn over glyph 0 at (255, 255), i.e. at column 63
\* of row 31: the sprite continues at column 0 and row 0, only the two
\* cells glyph 8 adds (columns 0 and 1 of row 1) are lit, and VF is set
C13_Witness ==
    /\ draft = "Take4" /\ JustStepped /\ last.opcode = \hD015 /\ last.at = \h20E
    /\ chip8.V[0] = 255 /\ chip8.V[1] = 255 /\ chip8.V[2] = 0 /\ chip8.V[3] = 8
    /\ chip8.vram = {0 + 1 * width, 1 + 1 * width}
    /\ chip8.V[15] = 1

\* C14 (as claimed): in Take4 pc is in 0..0xFFF in every reachable state.
C14_PcWraps ==
    draft = "Take4" => chip8.pc \in 0..\hFFF

\* C15 (as claimed): in Take4 and in the Working draft I is in 0..0xFFF in
\* every reachable state, and a step on Fx1E leaves I = (I + Vx) mod 4096.
C15_IndexWraps ==
    [][ (draft = "Take4" \/ draft = "Working") =>
          /\ IReg' \in 0..\hFFF
          /\ (Stepped /\ last'.opcode # -1 /\ last'.raised = "" /\ IsAddI(last'.opcode) =>
                IReg' = (IReg + Regs[OpX(last'.opcode)]) % 4096) ]_vars

\* C16: in Take4 each of V0..VF, the delay timer, the sound timer and every
\* memory cell holds a value in 0..255, in every reachable state.
C16_BytesStayBytes ==
    draft = "Take4" =>
        /\ \A i \in 0..(NumRegs - 1) : chip8.V[i] \in 0..255
        /\ chip8.delay \in 0..255 /\ chip8.sound \in 0..255
        /\ \A a \in DOMAIN chip8.memory : chip8.memory[a] \in 0..255

\* C16, witness: SHL V0 (801E) has run on V0 = 255: the ninth bit went to
\* VF and V0 holds 254
C16_Witness ==
    /\ draft = "Take4" /\ JustStepped /\ last.opcode = \h801E /\ last.raised = ""
    /\ chip8.V[0] = 254 /\ chip8.V[15] = 1


\* the transition is a call of _timer_tick
TimerTicked == last'.event = "timer"

\* C17: in the dispatch-table draft and in the Working draft every call of
\* _timer_tick takes 1 off the delay timer if it is nonzero and leaves it at
\* 0 otherwise, and does the same to the sound timer whatever the delay
\* timer holds; no timer goes below 0 and none grows.
C17_TimersCountDown ==
    [][ (draft = "Dispatch" \/ draft = "Working") /\ TimerTicked =>
          /\ Delay' = (IF Delay > 0 THEN Delay - 1 ELSE 0)
          /\ Sound' = (IF Sound > 0 THEN Sound - 1 ELSE 0)
          /\ Delay' >= 0 /\ Delay' <= Delay
          /\ Sound' >= 0 /\ Sound' <= Sound ]_vars

\* the dispatch-table draft after LD DT (3), a tick, LD ST (3), a tick: the
\* two timers stand at different values and both were counted down
C17_Witness ==
    /\ draft = "Dispatch"
    /\ last.event = "timer"
    /\ chip8.delay = 1
    /\ chip8.sound = 2


\* the Working draft is Halted
WorkingHalted == draft = "Working" /\ chip8.has_exit
\* the Working draft's most recent step ran Fx0A and left pc on it
WorkingStalled ==
    /\ draft = "Working" /\ ~chip8.has_exit
    /\ last.opcode # -1 /\ IsWaitKey(last.opcode) /\ last.raised = ""
    /\ chip8.pc = last.at

\* C18: in the Working draft a call of _timer_tick made while the machine
\* is Halted (has_exit) or stalled on Fx0A counts every nonzero timer down
\* by one, as it does while the machine runs.
C18_TimersRunWhileHaltedOrStalled ==
    [][ TimerTicked /\ (WorkingHalted \/ WorkingStalled) =>
          /\ chip8'.delay_timer =
                 (IF chip8.delay_timer > 0 THEN chip8.delay_timer - 1 ELSE 0)
          /\ chip8'.sound_timer =
                 (IF chip8.sound_timer > 0 THEN chip8.sound_timer - 1 ELSE 0) ]_vars

\* the Working draft halted by RET on the empty stack while both timers
\* were running, and _timer_tick called since: both timers are still nonzero
\* after the call, so both were counted down from a nonzero value
C18_Witness ==
    /\ WorkingHalted
    /\ last.event = "timer"
    /\ last.opcode = \h00EE
    /\ last.raised # ""
    /\ chip8.delay_timer = 2
    /\ chip8.sound_timer = 3


\* C19: in the dispatch-table draft, after every call of _timer_tick the
\* tone is signalled on (sound_playing) exactly if the sound counter is
\* nonzero; in particular the call that takes the counter from nonzero to
\* zero leaves the tone signalled off.
C19_ToneFollowsSound ==
    draft = "Dispatch" /\ last.event = "timer" =>
        (chip8.sound_playing <=> chip8.sound > 0)


\* the state is the one construction of the object has left
JustLoaded == last.event = "init"

\* C20: Take4's __init__ and the Working draft's load_rom copy a ROM of at
\* most 4096 - 0x200 bytes so that memory[0x200 + i] = rom[i] for every
\* byte of it; a longer ROM is rejected with RomTooLarge and no byte of it
\* is written to memory.
C20_LoadCopiesOrRejects ==
    (draft = "Take4" \/ draft = "Working") /\ JustLoaded =>
        IF Len(romfile) <= MemLen - 512
        THEN /\ uncaught = ""
             /\ \A i \in 0..(Len(romfile) - 1) :
                    ListGet(chip8.memory, 512 + i, MemLen) = romfile[i + 1]
        ELSE /\ uncaught = "RomTooLarge"
             /\ \A a \in 512..(MemLen - 1) : ListGet(chip8.memory, a, MemLen) = 0


----------------------------------------------------------------------------
(* C21..C30 *)

\* C21: Take4 constructed on a ROM of at most 3584 bytes holds the font
\* table in memory[0..79], byte i of the ROM in memory[0x200 + i], 0 in
\* every other cell, 0 in V0..VF, I, both timers, every key and every
\* framebuffer cell, 0x200 in pc and an empty call stack.
C21_InitialState ==
    draft = "Take4" /\ JustLoaded /\ Len(romfile) <= MemLen - 512 =>
        /\ uncaught = ""
        /\ \A a \in 0..(MemLen - 1) :
               ListGet(chip8.memory, a, MemLen) =
                   (IF a < 80 THEN FONTSET[a + 1]
                    ELSE IF a >= 512 /\ a - 512 < Len(romfile) THEN romfile[a - 512 + 1]
                    ELSE 0)
        /\ \A i \in 0..15 : chip8.V[i] = 0 /\ chip8.keys[i] = 0
        /\ chip8.I = 0
        /\ chip8.pc = 512
        /\ chip8.stack = <<>>
        /\ chip8.delay = 0 /\ chip8.sound = 0
        /\ \A c \in 0..(width * height - 1) : BitGet(chip8.vram, c) = 0

\* Take4 just constructed on the twelve bytes of the CALL / RET program
C21_Witness ==
    /\ draft = "Take4"
    /\ JustLoaded
    /\ romfile = RomBytes(RoundTrip)
    /\ ListGet(chip8.memory, 512, MemLen) = \h22
    /\ ListGet(chip8.memory, 523, MemLen) = \hEE


IsAddByte(opcode) == opcode \div 4096 = 7
OpKK(opcode) == opcode % 256

\* the transition is a step of Take4 that ran the fetched word to its end
Take4Ran == draft = "Take4" /\ Stepped /\ last'.opcode # -1 /\ last'.raised = ""

\* C22 (as claimed): in Take4 7xkk leaves Vx = (Vx + kk) mod 256 and leaves
\* VF as it was, for every x in 0..15.
C22_AddByteKeepsVF ==
    [][ Take4Ran /\ IsAddByte(last'.opcode) =>
          /\ chip8'.V[OpX(last'.opcode)] =
                 (chip8.V[OpX(last'.opcode)] + OpKK(last'.opcode)) % 256
          /\ chip8'.V[15] = chip8.V[15] ]_vars

\* C22 (amended): in Take4 7xkk leaves Vx = (Vx + kk) mod 256 and every
\* other register as it was; no carry is written, so VF is unmodified for
\* x # 0xF and holds the sum (VF + kk) mod 256 for x = 0xF.
C22_AddByteWritesOnlyVx ==
    [][ Take4Ran /\ IsAddByte(last'.opcode) =>
          /\ chip8'.V[OpX(last'.opcode)] =
                 (chip8.V[OpX(last'.opcode)] + OpKK(last'.opcode)) % 256
          /\ \A i \in 0..15 : i # OpX(last'.opcode) => chip8'.V[i] = chip8.V[i] ]_vars

\* Take4 after ADD VE,0xFF run with VE = 7 and VF = 1: the sum wrapped to 6
\* and VF still holds 1
C22_Witness ==
    /\ draft = "Take4"
    /\ JustStepped
    /\ last.opcode = \h7EFF
    /\ last.raised = ""
    /\ chip8.V[14] = 6
    /\ chip8.V[15] = 1


IsAddReg(opcode) == opcode \div 4096 = 8 /\ opcode % 16 = 4
IsSubReg(opcode) == opcode \div 4096 = 8 /\ opcode % 16 = 5

\* C23: in Take4, for every x and y in 0..15 (0xF included), 8xy4 leaves
\* VF = 1 if Vx + Vy > 255 and VF = 0 otherwise, and for x # 0xF it leaves
\* Vx = (Vx + Vy) mod 256.
C23_AddCarry ==
    [][ Take4Ran /\ IsAddReg(last'.opcode) =>
          /\ chip8'.V[15] =
                 (IF chip8.V[OpX(last'.opcode)] + chip8.V[OpY(last'.opcode)] > 255
                  THEN 1 ELSE 0)
          /\ (OpX(last'.opcode) # 15 =>
                 chip8'.V[OpX(last'.opcode)] =
                     (chip8.V[OpX(last'.opcode)] + chip8.V[OpY(last'.opcode)]) % 256) ]_vars

\* C24: in Take4, for every x and y in 0..15 (0xF included), 8xy5 leaves
\* VF = 1 if Vx > Vy and VF = 0 otherwise (Vx = Vy included), and for
\* x # 0xF it leaves Vx = (Vx - Vy) mod 256.
C24_SubNotBorrow ==
    [][ Take4Ran /\ IsSubReg(last'.opcode) =>
          /\ chip8'.V[15] =
                 (IF chip8.V[OpX(last'.opcode)] > chip8.V[OpY(last'.opcode)]
                  THEN 1 ELSE 0)
          /\ (OpX(last'.opcode) # 15 =>
                 chip8'.V[OpX(last'.opcode)] =
                     (chip8.V[OpX(last'.opcode)] - chip8.V[OpY(last'.opcode)]) % 256) ]_vars


\* 3xkk, 4xkk, 5xy0, 9xy0
IsSkip(opcode) ==
    \/ opcode \div 4096 \in {3, 4}
    \/ opcode \div 4096 \in {5, 9} /\ opcode % 16 = 0
\* the condition of the skip `opcode` on the registers v
SkipCond(opcode, v) ==
    IF opcode \div 4096 = 3 THEN v[OpX(opcode)] = OpKK(opcode)
    ELSE IF opcode \div 4096 = 4 THEN v[OpX(opcode)] # OpKK(opcode)
    ELSE IF opcode \div 4096 = 5 THEN v[OpX(opcode)] = v[OpY(opcode)]
    ELSE v[OpX(opcode)] # v[OpY(opcode)]

\* C25: in Take4 a 3xkk, 4xkk, 5xy0 or 9xy0 run at address a leaves
\* pc = a + 4 if its condition holds and pc = a + 2 if not, and leaves
\* V0..VF, I, the stack, memory and the framebuffer as they were.
C25_ConditionalSkips ==
    [][ Take4Ran /\ IsSkip(last'.opcode) =>
          /\ chip8'.pc = last'.at + (IF SkipCond(last'.opcode, chip8.V) THEN 4 ELSE 2)
          /\ last'.at = chip8.pc
          /\ chip8'.V = chip8.V
          /\ chip8'.I = chip8.I
          /\ chip8'.stack = chip8.stack
          /\ chip8'.memory = chip8.memory
          /\ chip8'.vram = chip8.vram ]_vars

\* Take4 after SE V0,0xFF at 0x208 with V0 = 0xFF: the skip was taken
C25_Witness ==
    /\ draft = "Take4"
    /\ JustStepped
    /\ last.opcode = \h30FF
    /\ last.at = \h208
    /\ chip8.V[0] = 255
    /\ chip8.pc = \h20C

IsSKP(opcode) == opcode \div 4096 = 14 /\ opcode % 256 = \h9E
IsSKNP(opcode) == opcode \div 4096 = 14 /\ opcode % 256 = \hA1
\* the step would skip: the chain run on `opcode` after the fetch at s.pc
\* leaves pc two words on
WouldSkip(s, opcode) ==
    T4_execute([s EXCEPT !.pc = s.pc + 2], opcode).st.pc = s.pc + 4

\* C26: in Take4, with Vx in 0..15, Ex9E run at address a leaves pc = a + 4
\* if key Vx is down and a + 2 if not, ExA1 the reverse; in the state the
\* step starts from exactly one of Ex9E and ExA1 would skip; the key state
\* is left as it was.
C26_KeySkips ==
    [][ /\ draft = "Take4" /\ Stepped /\ last'.opcode # -1
        /\ (IsSKP(last'.opcode) \/ IsSKNP(last'.opcode))
        /\ chip8.V[OpX(last'.opcode)] \in 0..15
        =>
          /\ last'.raised = ""
          /\ last'.at = chip8.pc
          /\ chip8'.pc = last'.at +
                 (IF IsSKP(last'.opcode) <=> chip8.keys[chip8.V[OpX(last'.opcode)]] # 0
                  THEN 4 ELSE 2)
          /\ WouldSkip(chip8, \hE09E + 256 * OpX(last'.opcode))
                 # WouldSkip(chip8, \hE0A1 + 256 * OpX(last'.opcode))
          /\ chip8'.keys = chip8.keys ]_vars

\* Take4 after SKP V0 at 0x202 with V0 = 3 and key 3 down: the skip was
\* taken
C26_Witness ==
    /\ draft = "Take4"
    /\ JustStepped
    /\ last.opcode = \hE09E
    /\ last.at = \h202
    /\ chip8.V[0] = 3
    /\ chip8.keys[3] = 1
    /\ chip8.pc = \h206


IsBCD(opcode) == opcode \div 4096 = 15 /\ opcode % 256 = \h33
\* memory[a] of the running object
Mem(a) == ListGet(chip8.memory, a, MemLen)
\* the cells of memory that hold something before or after the transition
UsedCells == DOMAIN chip8.memory \cup DOMAIN chip8'.memory

\* C27: in Take4, with I in 0..0xFFD, Fx33 writes the hundreds, tens and
\* units digits of Vx to memory[I], memory[I+1], memory[I+2] (each in 0..9,
\* 100 * hundreds + 10 * tens + units = Vx) and leaves I, the registers and
\* every other memory cell as they were.
C27_BCD ==
    [][ /\ draft = "Take4" /\ Stepped /\ last'.opcode # -1 /\ IsBCD(last'.opcode)
        /\ chip8.I \in 0..\hFFD
        =>
          /\ last'.raised = ""
          /\ Mem(chip8.I)' = chip8.V[OpX(last'.opcode)] \div 100
          /\ Mem(chip8.I + 1)' = (chip8.V[OpX(last'.opcode)] \div 10) % 10
          /\ Mem(chip8.I + 2)' = chip8.V[OpX(last'.opcode)] % 10
          /\ \A d \in 0..2 : Mem(chip8.I + d)' \in 0..9
          /\ 100 * Mem(chip8.I)' + 10 * Mem(chip8.I + 1)' + Mem(chip8.I + 2)'
                 = chip8.V[OpX(last'.opcode)]
          /\ chip8'.I = chip8.I
          /\ chip8'.V = chip8.V
          /\ \A a \in UsedCells \ {chip8.I, chip8.I + 1, chip8.I + 2} :
                 Mem(a)' = Mem(a) ]_vars

\* Take4 after LD B,V0 with V0 = 157 and I = 0xFFD: 1, 5, 7 in the last
\* three cells of memory
C27_Witness ==
    /\ draft = "Take4"
    /\ JustStepped
    /\ last.opcode = \hF033
    /\ last.raised = ""
    /\ chip8.V[0] = 157
    /\ chip8.I = \hFFD
    /\ Mem(\hFFD) = 1 /\ Mem(\hFFE) = 5 /\ Mem(\hFFF) = 7


IsSTORE(opcode) == opcode \div 4096 = 15 /\ opcode % 256 = \h55
IsLOAD(opcode) == opcode \div 4096 = 15 /\ opcode % 256 = \h65
\* the object with every register changed (Vi replaced by 255 - Vi)
Scrambled(s) == [s EXCEPT !.V = [i \in 0..15 |-> 255 - s.V[i]]]

\* C28: in Take4, with I + x <= 0xFFF, Fx55 sets memory[I + i] = Vi for
\* i in 0..x and changes no other cell and no register; Fx65 sets
\* Vi = memory[I + i] for i in 0..x and changes no other register and no
\* cell; both leave I as it was, and an Fx65 run after the Fx55, whatever
\* the registers hold by then, brings V0..Vx back.
C28_StoreLoad ==
    [][ /\ draft = "Take4" /\ Stepped /\ last'.opcode # -1
        /\ (IsSTORE(last'.opcode) \/ IsLOAD(last'.opcode))
        /\ chip8.I + OpX(last'.opcode) <= \hFFF
        =>
          /\ last'.raised = ""
          /\ chip8'.I = chip8.I
          /\ IsSTORE(last'.opcode) =>
                /\ \A i \in 0..OpX(last'.opcode) :
                       ListGet(chip8'.memory, chip8.I + i, MemLen) = chip8.V[i]
                /\ \A a \in UsedCells \ (chip8.I..(chip8.I + OpX(last'.opcode))) :
                       ListGet(chip8'.memory, a, MemLen) = Mem(a)
                /\ chip8'.V = chip8.V
                /\ \A i \in 0..OpX(last'.opcode) :
                       T4_execute(Scrambled(chip8'),
                                  \hF065 + 256 * OpX(last'.opcode)).st.V[i] = chip8.V[i]
          /\ IsLOAD(last'.opcode) =>
                /\ \A i \in 0..OpX(last'.opcode) : chip8'.V[i] = Mem(chip8.I + i)
                /\ \A i \in 0..15 : i > OpX(last'.opcode) => chip8'.V[i] = chip8.V[i]
                /\ chip8'.memory = chip8.memory ]_vars

\* Take4 after LD [I],V1 with I = 0xFFE, V0 = 0x9D and V1 = 0x22: the two
\* registers are in the last two cells of memory
C28_Witness ==
    /\ draft = "Take4"
    /\ JustStepped
    /\ last.opcode = \hF155
    /\ last.raised = ""
    /\ chip8.I = \hFFE
    /\ chip8.V[0] = \h9D /\ chip8.V[1] = \h22
    /\ Mem(\hFFE) = \h9D /\ Mem(\hFFF) = \h22


\* the transition is a cycle() of the Working draft that ran the fetched
\* word to its end
WorkingRan == draft = "Working" /\ Stepped /\ last'.opcode # -1 /\ last'.raised = ""

\* C29: in the Working draft a CALL nnn run at address a pushes a + 2, the
\* pc after the instruction, onto the call stack and then sets pc to nnn.
C29_WorkingCallPushesNext ==
    [][ WorkingRan /\ IsCALL(last'.opcode) =>
          /\ chip8'.stack = Append(chip8.stack, last'.at + 2)
          /\ chip8'.pc = OpNNN(last'.opcode) ]_vars


IsJP(opcode) == opcode \div 4096 = 1

\* C30: in the Working draft, after a completed cycle() pc = nnn for 1nnn
\* and for 2nnn and pc = (nnn + V0) mod 4096 for Bnnn, for every nnn (0 and
\* 1 included): the default increment is never added to the target.
C30_WorkingJumpTargets ==
    [][ WorkingRan =>
          /\ (IsJP(last'.opcode) \/ IsCALL(last'.opcode) =>
                 chip8'.pc = OpNNN(last'.opcode))
          /\ (IsJpV0(last'.opcode) =>
                 chip8'.pc = (OpNNN(last'.opcode) + chip8.gpio[0]) % 4096) ]_vars

\* the Working draft after JP 0x000: pc is 0
C30_Witness ==
    /\ draft = "Working"
    /\ JustStepped
    /\ last.opcode = \h1000
    /\ last.raised = ""
    /\ chip8.pc = 0


----------------------------------------------------------------------------
(* C31..C37 *)

\* the transition is a call of the dispatch-table draft's tick that fetched
\* a word
DispatchStepped == draft = "Dispatch" /\ Stepped /\ last'.opcode # -1

\* C31: in the dispatch-table draft a CALL run with 16 addresses on the
\* stack and a RET run on the empty stack are fatal: the machine stops and
\* control is not transferred (pc stays on the instruction or just after it).
C31_DispatchStackFaultsAreFatal ==
    [][ /\ DispatchStepped
        /\ \/ IsCALL(last'.opcode) /\ chip8.sp = 16
           \/ IsRET(last'.opcode) /\ chip8.sp = 0
        =>
          /\ last'.raised # ""
          /\ uncaught' # ""
          /\ chip8'.pc \in {last'.at, last'.at + 2} ]_vars


\* the word the next tick of the dispatch-table draft fetches is Cxkk
AtRnd ==
    /\ draft = "Dispatch" /\ uncaught = ""
    /\ InBounds(chip8.pc, chip8.memlen) /\ InBounds(chip8.pc + 1, chip8.memlen)
    /\ IsRnd(D_fetch(chip8))
    /\ OpX(D_fetch(chip8)) \in DOMAIN chip8.V

\* C32: in the dispatch-table draft Cxkk leaves Vx = r & kk for some byte
\* r, so no bit outside kk is set in Vx; every value r & kk, r in 0..255,
\* is the outcome of some run of the step; no other register, nor I, the
\* stack, sp or memory is changed and pc is the address after the word.
C32_RND ==
    /\ [][ /\ DispatchStepped /\ IsRnd(last'.opcode)
            /\ OpX(last'.opcode) \in DOMAIN chip8.V
            =>
              /\ last'.raised = ""
              /\ \E r \in 0..255 :
                     chip8'.V[OpX(last'.opcode)] = BitAnd(r, OpKK(last'.opcode))
              /\ BitAnd(chip8'.V[OpX(last'.opcode)], 255 - OpKK(last'.opcode)) = 0
              /\ DOMAIN chip8'.V = DOMAIN chip8.V
              /\ \A i \in DOMAIN chip8.V :
                     i # OpX(last'.opcode) => chip8'.V[i] = chip8.V[i]
              /\ chip8'.I = chip8.I
              /\ chip8'.pc = last'.at + 2
              /\ chip8'.stack = chip8.stack /\ chip8'.sp = chip8.sp
              /\ chip8'.memory = chip8.memory /\ chip8'.memlen = chip8.memlen ]_vars
    /\ [](AtRnd =>
             \A r \in 0..255 :
                 /\ r \in D_draws(chip8)
                 /\ D_tick(chip8, r).raised = ""
                 /\ D_tick(chip8, r).st.V[OpX(D_fetch(chip8))]
                        = BitAnd(r, OpKK(D_fetch(chip8))))

\* the dispatch-table draft after RND V1,0xA5 that drew a byte with bits
\* both inside and outside the mask: V1 = 0xA1
C32_Witness ==
    /\ draft = "Dispatch"
    /\ JustStepped
    /\ last.opcode = \hC1A5
    /\ last.raised = ""
    /\ chip8.V[1] = \hA1


\* the faults cycle() itself raises in the Working draft
WorkingFaults == StackFaults \cup {"PC out of bounds"}

\* C33: in the Working draft a cycle() that raises a stack overflow, a
\* stack underflow or "PC out of bounds" leaves pc, V0..VF, I, the call
\* stack, memory, the framebuffer and both timers as they were before it.
C33_WorkingFaultsAreAtomic ==
    [][ /\ draft = "Working" /\ Stepped /\ ~chip8.has_exit
        /\ last'.raised \in WorkingFaults
        =>
          /\ chip8'.has_exit
          /\ chip8'.pc = chip8.pc
          /\ chip8'.gpio = chip8.gpio
          /\ chip8'.index = chip8.index
          /\ chip8'.stack = chip8.stack
          /\ chip8'.memory = chip8.memory
          /\ chip8'.display_buffer = chip8.display_buffer
          /\ chip8'.delay_timer = chip8.delay_timer
          /\ chip8'.sound_timer = chip8.sound_timer ]_vars

\* the Working draft halted by the seventeenth CALL of a program that
\* calls itself: the sixteen return addresses are there and pc is still on
\* the CALL
C33_Witness ==
    /\ WorkingHalted
    /\ JustStepped
    /\ last.raised = "Stack overflow on CALL"
    /\ Len(chip8.stack) = 16
    /\ chip8.pc = last.at


\* C34: in Take4 an Fx0A run while keys are held completes at once (pc is
\* the address after the Fx0A, whether or not it had stalled before), Vx is
\* the lowest-numbered held key and the key states are not changed.
C34_KeyWaitTakesLowestKey ==
    [][ /\ draft = "Take4" /\ Stepped
        /\ last'.opcode # -1 /\ IsWaitKey(last'.opcode)
        /\ Held # {}
        =>
          /\ last'.raised = ""
          /\ chip8'.pc = last'.at + 2
          /\ chip8'.V[OpX(last'.opcode)] \in Held
          /\ \A k \in Held : chip8'.V[OpX(last'.opcode)] <= k
          /\ chip8'.keys = chip8.keys ]_vars

\* Take4 just ran the F00A at 0x202 with keys 3 and 15 down: V0 = 3
C34_Witness ==
    /\ draft = "Take4"
    /\ JustStepped
    /\ last.opcode = \hF00A /\ last.at = \h202
    /\ Held = {3, 15}
    /\ chip8.V[0] = 3
    /\ chip8.pc = \h204


\* a timer after the timer section has seen the value v
CountedDown(v) == IF v > 0 THEN v - 1 ELSE v

\* C35: in Take4 every step that completes runs the timer section: each
\* timer ends one below the value the opcode left it with (the value Fx15 or
\* Fx18 wrote, else its old value) unless that value is 0, on a stalled
\* Fx0A and on the Fx0A that finds a key as on any other opcode.
C35_TimersRunOnEveryStep ==
    [][ Take4Ran
        =>
          /\ chip8'.delay = CountedDown(IF IsLdDT(last'.opcode)
                                        THEN chip8.V[OpX(last'.opcode)]
                                        ELSE chip8.delay)
          /\ chip8'.sound = CountedDown(IF IsLdST(last'.opcode)
                                        THEN chip8.V[OpX(last'.opcode)]
                                        ELSE chip8.sound) ]_vars


\* C36: in the dispatch-table draft, once a ROM that fits is loaded, memory
\* has 4096 cells and the register file has 16 registers after any sequence
\* of steps, Fx55 and Fx65 with I + x > 0xFFF included.
C36_ContainerSizes ==
    draft = "Dispatch" /\ Len(romfile) <= MemLen - 512
    => chip8.memlen = MemLen /\ PyLen(chip8.V) = NumRegs


\* C37: in the dispatch-table draft 0 <= sp <= 16 always; a CALL below
\* depth 16 writes slot sp (in 0..15) only and a RET above depth 0 reads
\* slot sp - 1 (in 0..15); a CALL with sp = 16 leaves sp and the 16 stored
\* addresses unchanged and a RET with sp = 0 leaves sp = 0; no other
\* instruction touches sp or the stack.
C37_StackPointerInRange ==
    /\ [](draft = "Dispatch" => chip8.sp \in 0..16 /\ DOMAIN chip8.stack = 0..15)
    /\ [][ DispatchStepped /\ last'.raised = ""
            =>
              IF IsCALL(last'.opcode) /\ chip8.sp = 16
              THEN chip8'.sp = 16 /\ chip8'.stack = chip8.stack
              ELSE IF IsCALL(last'.opcode)
              THEN /\ chip8.sp \in 0..15
                   /\ chip8'.sp = chip8.sp + 1
                   /\ chip8'.stack = [chip8.stack EXCEPT ![chip8.sp] = last'.at + 2]
              ELSE IF IsRET(last'.opcode) /\ chip8.sp = 0
              THEN chip8'.sp = 0 /\ chip8'.stack = chip8.stack
              ELSE IF IsRET(last'.opcode)
              THEN /\ chip8.sp - 1 \in 0..15
                   /\ chip8'.sp = chip8.sp - 1
                   /\ chip8'.pc = chip8.stack[chip8.sp - 1]
                   /\ chip8'.stack = chip8.stack
              ELSE chip8'.sp = chip8.sp /\ chip8'.stack = chip8.stack ]_vars

\* the dispatch-table draft after a CALL 0x200 at 0x200 with the stack
\* full: sp = 16 and the last slot holds the return address 0x202
C37_Witness ==
    /\ draft = "Dispatch"
    /\ JustStepped
    /\ last.opcode = \h2200 /\ last.raised = ""
    /\ chip8.sp = 16
    /\ chip8.stack[15] = \h202
    /\ chip8.pc = \h200

====
